---- MODULE Spec2Model ----
(***************************************************************************)
(* Model of the interface-extraction and binding-generation pipeline of    *)
(* ni-fpga-interface-build: the signature visitor, the address definitions *)
(* visitor, the BTreeMap backed AddressSet and the registers / FIFOs       *)
(* module generators, driven over one translation unit per build.          *)
(*                                                                         *)
(* Strings are TLA+ strings handled character by character; Option<T> is   *)
(* the empty tuple (None) or a one element tuple (Some).                   *)
(***************************************************************************)
EXTENDS Integers, Sequences, FiniteSets, TLC

\* ------------------------------------------------------------------------
\* Bounds
\* ------------------------------------------------------------------------

\* Largest number of declarations of a translation unit behind its front.
MaxDecls == 2

\* ------------------------------------------------------------------------
\* Option<T>
\* ------------------------------------------------------------------------

None == <<>>

Some(x) == <<x>>

IsSome(o) == o # <<>>

Unwrap(o) == o[1]

\* ------------------------------------------------------------------------
\* str helpers (std::str)
\* ------------------------------------------------------------------------

CharAt(s, i) == SubSeq(s, i, i)

\* str::starts_with
StartsWith(s, p) == Len(p) <= Len(s) /\ SubSeq(s, 1, Len(p)) = p

\* str::ends_with
EndsWith(s, x) == Len(x) <= Len(s) /\ SubSeq(s, Len(s) - Len(x) + 1, Len(s)) = x

\* str::strip_prefix : Option<&str>
StripPrefix(s, p) ==
    IF StartsWith(s, p) THEN Some(SubSeq(s, Len(p) + 1, Len(s))) ELSE None

\* str::strip_suffix : Option<&str>
StripSuffix(s, x) ==
    IF EndsWith(s, x) THEN Some(SubSeq(s, 1, Len(s) - Len(x))) ELSE None

\* str::rsplit_once(char) : Option<(&str, &str)>, split at the LAST delimiter.
RSplitOnce(s, c) ==
    LET hits == {i \in 1..Len(s) : CharAt(s, i) = c}
    IN  IF hits = {} THEN None
        ELSE LET i == CHOOSE k \in hits : \A j \in hits : j <= k
             IN  Some(<<SubSeq(s, 1, i - 1), SubSeq(s, i + 1, Len(s))>>)

\* Index of the first character of s that is not c (Len(s) + 1 if none).
FirstNot(s, c) ==
    LET keep == {i \in 1..Len(s) : CharAt(s, i) # c}
    IN  IF keep = {} THEN Len(s) + 1
        ELSE CHOOSE k \in keep : \A j \in keep : k <= j

\* Index of the last character of s that is not c (0 if none).
LastNot(s, c) ==
    LET keep == {i \in 1..Len(s) : CharAt(s, i) # c}
    IN  IF keep = {} THEN 0
        ELSE CHOOSE k \in keep : \A j \in keep : j <= k

\* str::trim_start_matches(char)
TrimStartMatches(s, c) == SubSeq(s, FirstNot(s, c), Len(s))

\* str::trim_end_matches(char)
TrimEndMatches(s, c) == SubSeq(s, 1, LastNot(s, c))

\* The characters the identifiers of the model use, in byte order.
AsciiOrder == "0123456789ABCDEFGHIJKLMNOPQRSTUVWXYZ_abcdefghijklmnopqrstuvwxyz"

CharCode(c) == CHOOSE i \in 1..Len(AsciiOrder) : CharAt(AsciiOrder, i) = c

\* Ord for str: byte-wise lexicographic comparison, -1 / 0 / 1.
RECURSIVE CmpStr(_, _)
CmpStr(a, b) ==
    IF Len(a) = 0 /\ Len(b) = 0 THEN 0
    ELSE IF Len(a) = 0 THEN -1
    ELSE IF Len(b) = 0 THEN 1
    ELSE IF CharCode(CharAt(a, 1)) < CharCode(CharAt(b, 1)) THEN -1
    ELSE IF CharCode(CharAt(a, 1)) > CharCode(CharAt(b, 1)) THEN 1
    ELSE CmpStr(SubSeq(a, 2, Len(a)), SubSeq(b, 2, Len(b)))

\* ------------------------------------------------------------------------
\* Integers: u32 parsing and formatting.  A u32 is the pair <<hi, lo>> of its
\* two 16 bit halves, so that the whole range 0 .. 2^32 - 1 is covered.
\* ------------------------------------------------------------------------

Half == 65536

\* The u32 of a small natural number.
U32(n) == <<n \div Half, n % Half>>

LowerDigits == "0123456789abcdefghijklmnopqrstuvwxyz"

UpperDigits == "0123456789ABCDEFGHIJKLMNOPQRSTUVWXYZ"

\* char::to_digit(radix) : Option<u32>
ToDigit(c, radix) ==
    LET hits == {i \in 1..radix : CharAt(LowerDigits, i) = c \/ CharAt(UpperDigits, i) = c}
    IN  IF hits = {} THEN None ELSE Some((CHOOSE i \in hits : TRUE) - 1)

\* u32::checked_mul(radix) followed by u32::checked_add(d) : Option<u32>
CheckedMulAdd(v, radix, d) ==
    LET lo == v[2] * radix + d
        hi == v[1] * radix + (lo \div Half)
    IN  IF hi >= Half THEN None ELSE Some(<<hi, lo % Half>>)

\* The digit loop of u32::from_str_radix: None once a character is no digit
\* of the radix or the value leaves the u32 range.
RECURSIVE ParseDigits(_, _, _)
ParseDigits(s, radix, acc) ==
    IF Len(s) = 0 THEN Some(acc)
    ELSE LET d == ToDigit(CharAt(s, 1), radix)
         IN  IF ~IsSome(d) THEN None
             ELSE LET next == CheckedMulAdd(acc, radix, Unwrap(d))
                  IN  IF ~IsSome(next) THEN None
                      ELSE ParseDigits(SubSeq(s, 2, Len(s)), radix, Unwrap(next))

\* u32::from_str_radix : Result<u32, ParseIntError> as Option<u32>
FromStrRadix(s, radix) ==
    IF Len(s) = 0 THEN None ELSE ParseDigits(s, radix, <<0, 0>>)

\* Quotient and remainder of a u32 by a small divisor: <<quotient, remainder>>.
DivMod(v, by) ==
    LET t == (v[1] % by) * Half + v[2]
    IN  <<(<<v[1] \div by, t \div by>>), t % by>>

\* The digits of a u32 in the given base, most significant first.
RECURSIVE Digits(_, _)
Digits(v, base) ==
    LET qr == DivMod(v, base)
    IN  IF qr[1] = <<0, 0>> THEN CharAt(UpperDigits, qr[2] + 1)
        ELSE Digits(qr[1], base) \o CharAt(UpperDigits, qr[2] + 1)

\* format!("{:X}", n)
UpperHex(v) == Digits(v, 16)

\* format!("{}", n) of a u32
Display(v) == Digits(v, 10)

\* ------------------------------------------------------------------------
\* Results of operations that can panic
\* ------------------------------------------------------------------------

NoError == ""

Ok(v) == [err |-> NoError, val |-> <<v>>]

Panic(msg) == [err |-> msg, val |-> <<>>]

UnwrapNone == "called Option::unwrap() on a None value"

UnwrapErr == "called Result::unwrap() on an Err value"

UnexpectedConstant == "Unexpected constant type."

UnexpectedExpression == "Unexpected expression type"

NoSignature == "No signature"

\* parse(&config, new_path).unwrap() on a text the C parser rejects.
ParseFailure == "called Result::unwrap() on an Err value: SyntaxError"

ArraySizeNotFound == "Array size not found."

NeedSize == "Need size to generate an array register."

UnknownType == "Unknown type"

\* ------------------------------------------------------------------------
\* address_definitions.rs
\* ------------------------------------------------------------------------

\* enum AddressKind, in declaration order (the order derive(Ord) uses).
AddressKind ==
    <<"Control", "Indicator", "ControlArray", "IndicatorArray",
      "ControlArraySize", "IndicatorArraySize",
      "TargetToHostFifo", "HostToTargetFifo">>

KindIndex(kind) == CHOOSE i \in 1..Len(AddressKind) : AddressKind[i] = kind

\* AddressKind::is_array
is_array(kind) ==
    kind \in {"ControlArray", "IndicatorArray", "ControlArraySize", "IndicatorArraySize"}

\* AddressKind::with_size
with_size(kind) ==
    CASE kind = "ControlArray" -> "ControlArraySize"
      [] kind = "IndicatorArray" -> "IndicatorArraySize"
      [] OTHER -> kind

\* AddressKind::prefix
prefix(kind) ==
    CASE kind = "Control" -> "Control"
      [] kind = "Indicator" -> "Indicator"
      [] kind = "ControlArray" -> "ControlArray"
      [] kind = "IndicatorArray" -> "IndicatorArray"
      [] kind = "ControlArraySize" -> "ControlArray"
      [] kind = "IndicatorArraySize" -> "IndicatorArray"
      [] kind = "TargetToHostFifo" -> "TargetToHostFifo"
      [] kind = "HostToTargetFifo" -> "HostToTargetFifo"

\* Mutant of Radix: an octal literal is read as a decimal one.
Radix_OctalAsDecimal(base) ==
    CASE base = "Decimal" -> 10
      [] base = "Hexadecimal" -> 16
      [] base = "Octal" -> 10
      [] base = "Binary" -> 2

\* The radix of an IntegerBase.
Radix(base) ==
    CASE base = "Decimal" -> 10
      [] base = "Hexadecimal" -> 16
      [] base = "Octal" -> 8
      [] base = "Binary" -> 2

\* value_from_discriminant: the u32 of an integer literal, a panic otherwise.
\* An Expression is [kind, base, number]: kind "Integer" is an integer
\* constant, "Float" another constant, anything else another expression.
value_from_discriminant(discriminant) ==
    IF discriminant.kind = "Integer"
    THEN LET parsed == FromStrRadix(discriminant.number, Radix(discriminant.base))
         IN  IF IsSome(parsed) THEN Ok(Unwrap(parsed)) ELSE Panic(UnwrapErr)
    ELSE IF discriminant.kind = "Float" THEN Panic(UnexpectedConstant)
    ELSE Panic(UnexpectedExpression)

\* ------------------------------------------------------------------------
\* address_definitions_visitor.rs: LocationDefinition and AddressSet
\* ------------------------------------------------------------------------

LocationDefinition(kind, name, datatype) ==
    [kind |-> kind, name |-> name, datatype |-> datatype]

\* derive(PartialOrd, Ord) of LocationDefinition: kind, then name, then
\* datatype; -1 / 0 / 1.
CmpDef(a, b) ==
    IF KindIndex(a.kind) < KindIndex(b.kind) THEN -1
    ELSE IF KindIndex(a.kind) > KindIndex(b.kind) THEN 1
    ELSE IF CmpStr(a.name, b.name) # 0 THEN CmpStr(a.name, b.name)
    ELSE CmpStr(a.datatype, b.datatype)

\* AddressSet = BTreeMap<LocationDefinition, u32>: the sequence of its
\* entries [key, value] in iteration order.

\* BTreeMap::new
BTreeNew == <<>>

\* BTreeMap::get : Option<&u32>
BTreeGet(map, key) ==
    LET hits == {i \in 1..Len(map) : CmpDef(map[i].key, key) = 0}
    IN  IF hits = {} THEN None ELSE Some(map[CHOOSE i \in hits : TRUE].value)

\* Mutant of BTreeInsert: a container that keeps insertion order (a new key
\* goes behind all entries).
BTreeInsert_Push(map, key, value) ==
    LET same == {i \in 1..Len(map) : CmpDef(map[i].key, key) = 0}
        entry == [key |-> key, value |-> value]
    IN  IF same # {}
        THEN [map EXCEPT ![CHOOSE i \in same : TRUE] = entry]
        ELSE Append(map, entry)

\* Mutant of BTreeInsert: the value of an equal key is kept (or_insert).
BTreeInsert_KeepFirst(map, key, value) ==
    LET less == {i \in 1..Len(map) : CmpDef(map[i].key, key) < 0}
        same == {i \in 1..Len(map) : CmpDef(map[i].key, key) = 0}
        n == Cardinality(less)
        entry == [key |-> key, value |-> value]
    IN  IF same # {}
        THEN map
        ELSE SubSeq(map, 1, n) \o <<entry>> \o SubSeq(map, n + 1, Len(map))

\* BTreeMap::insert: replaces the value of an equal key, otherwise puts the
\* entry behind the entries with smaller keys.
BTreeInsert(map, key, value) ==
    LET less == {i \in 1..Len(map) : CmpDef(map[i].key, key) < 0}
        same == {i \in 1..Len(map) : CmpDef(map[i].key, key) = 0}
        n == Cardinality(less)
        entry == [key |-> key, value |-> value]
    IN  IF same # {}
        THEN [map EXCEPT ![CHOOSE i \in same : TRUE] = entry]
        ELSE SubSeq(map, 1, n) \o <<entry>> \o SubSeq(map, n + 1, Len(map))

\* The keys of an AddressSet.
Keys(map) == {map[i].key : i \in 1..Len(map)}

\* ------------------------------------------------------------------------
\* address_definitions_visitor.rs: decoding of names
\* ------------------------------------------------------------------------

\* Mutant of KindOptions: the scalar kinds are tried before the array kinds.
KindOptions_ScalarFirst ==
    <<"Control", "Indicator", "ControlArray", "IndicatorArray",
      "TargetToHostFifo", "HostToTargetFifo">>

\* The candidate kinds of extract_type_from_start, in the order they are tried.
KindOptions ==
    <<"ControlArray", "IndicatorArray", "Control", "Indicator",
      "TargetToHostFifo", "HostToTargetFifo">>

\* extract_type_from_start : Option<AddressKind>, the first candidate whose
\* prefix starts the name.
extract_type_from_start(name) ==
    LET hits == {i \in 1..Len(KindOptions) : StartsWith(name, prefix(KindOptions[i]))}
    IN  IF hits = {} THEN None
        ELSE Some(KindOptions[CHOOSE i \in hits : \A j \in hits : i <= j])

\* Mutant of enum_name_to_types: the kind is rewritten to its size counterpart
\* but the "Size" suffix stays in the type name.
enum_name_to_types_KeepSuffix(name) ==
    LET found == extract_type_from_start(name)
    IN  IF ~IsSome(found) THEN Panic(UnwrapNone)
        ELSE LET kind == Unwrap(found)
                 type_name == StripPrefix(name, prefix(kind))
             IN  IF ~IsSome(type_name) THEN Panic(UnwrapNone)
                 ELSE IF is_array(kind) /\ EndsWith(name, "Size")
                 THEN Ok(<<with_size(kind), Unwrap(type_name)>>)
                 ELSE Ok(<<kind, Unwrap(type_name)>>)

\* enum_name_to_types : (AddressKind, &str), or a panic of one of its unwraps.
enum_name_to_types(name) ==
    LET found == extract_type_from_start(name)
    IN  IF ~IsSome(found) THEN Panic(UnwrapNone)
        ELSE LET kind == Unwrap(found)
                 type_name == StripPrefix(name, prefix(kind))
             IN  IF ~IsSome(type_name) THEN Panic(UnwrapNone)
                 ELSE IF is_array(kind) /\ EndsWith(name, "Size")
                 THEN LET stripped == StripSuffix(Unwrap(type_name), "Size")
                      IN  IF ~IsSome(stripped) THEN Panic(UnwrapNone)
                          ELSE Ok(<<with_size(kind), Unwrap(stripped)>>)
                 ELSE Ok(<<kind, Unwrap(type_name)>>)

\* Mutant of control_indicator_name_from_full: split_once instead of
\* rsplit_once, the text after the FIRST '_'.
control_indicator_name_from_full_SplitOnce(full_name) ==
    LET hits == {i \in 1..Len(full_name) : CharAt(full_name, i) = "_"}
    IN  IF hits = {} THEN Panic(UnwrapNone)
        ELSE Ok(SubSeq(full_name, (CHOOSE k \in hits : \A j \in hits : k <= j) + 1,
                       Len(full_name)))

\* control_indicator_name_from_full : the text after the last '_', or a panic.
control_indicator_name_from_full(full_name) ==
    LET split == RSplitOnce(full_name, "_")
    IN  IF ~IsSome(split) THEN Panic(UnwrapNone) ELSE Ok(Unwrap(split)[2])

\* The loop of process_enum_type over the enumerators from position i on.
\* The result is [err, registers]: the registers as they are when the loop
\* ends or panics.
RECURSIVE ProcessEnumerators(_, _, _, _, _)
ProcessEnumerators(registers, kind, type_name, enumerators, i) ==
    IF i > Len(enumerators) THEN [err |-> NoError, registers |-> registers]
    ELSE LET variant == enumerators[i]
             name == control_indicator_name_from_full(variant.identifier)
         IN  IF name.err # NoError THEN [err |-> name.err, registers |-> registers]
             ELSE IF ~IsSome(variant.expression)
             THEN [err |-> UnwrapNone, registers |-> registers]
             ELSE LET definition == LocationDefinition(kind, Unwrap(name.val), type_name)
                      value == value_from_discriminant(Unwrap(variant.expression))
                  IN  IF value.err # NoError
                      THEN [err |-> value.err, registers |-> registers]
                      ELSE ProcessEnumerators(
                               BTreeInsert(registers, definition, Unwrap(value.val)),
                               kind, type_name, enumerators, i + 1)

\* AddressDefinitionsVisitor::process_enum_type.
process_enum_type(registers, visitor_prefix, node, type_name) ==
    LET enum_name == StripPrefix(type_name, visitor_prefix)
    IN  IF ~IsSome(enum_name) THEN [err |-> UnwrapNone, registers |-> registers]
        ELSE LET types == enum_name_to_types(Unwrap(enum_name))
             IN  IF types.err # NoError THEN [err |-> types.err, registers |-> registers]
                 ELSE ProcessEnumerators(registers, Unwrap(types.val)[1],
                                         Unwrap(types.val)[2], node.enumerators, 1)

\* is_typedef: some specifier is the storage class typedef.
is_typedef(node) ==
    \E i \in 1..Len(node.specifiers) : node.specifiers[i].kind = "Typedef"

\* get_typedef_name : the identifier of the first declarator that has one.
get_typedef_name(node) ==
    LET hits == {i \in 1..Len(node.declarators) : IsSome(node.declarators[i].declarator)}
    IN  IF hits = {} THEN None
        ELSE node.declarators[CHOOSE i \in hits : \A j \in hits : i <= j].declarator

\* The loop of visit_declaration over the specifiers from position i on.
RECURSIVE VisitSpecifiers(_, _, _, _, _)
VisitSpecifiers(registers, visitor_prefix, declaration, name, i) ==
    IF i > Len(declaration.specifiers) THEN [err |-> NoError, registers |-> registers]
    ELSE IF declaration.specifiers[i].kind = "Enum"
    THEN LET done == process_enum_type(registers, visitor_prefix,
                                       declaration.specifiers[i], name)
         IN  IF done.err # NoError THEN done
             ELSE VisitSpecifiers(done.registers, visitor_prefix, declaration, name, i + 1)
    ELSE VisitSpecifiers(registers, visitor_prefix, declaration, name, i + 1)

\* AddressDefinitionsVisitor::visit_declaration.
visit_declaration(registers, visitor_prefix, declaration) ==
    IF is_typedef(declaration) /\ IsSome(get_typedef_name(declaration))
    THEN VisitSpecifiers(registers, visitor_prefix, declaration,
                         Unwrap(get_typedef_name(declaration)), 1)
    ELSE [err |-> NoError, registers |-> registers]

\* ------------------------------------------------------------------------
\* string_constant_visitor.rs
\* ------------------------------------------------------------------------

\* string_constant_from_initializer : Option<&str>
string_constant_from_initializer(initializer) ==
    IF initializer.kind = "StringLiteral"
    THEN Some(TrimEndMatches(TrimStartMatches(initializer.strings[1], "\""), "\""))
    ELSE None

\* Mutant of visit_init_declarator: no early return once a value is found.
visit_init_declarator_Overwrite(value, visitor_name, declaration) ==
    IF IsSome(declaration.declarator)
       /\ Unwrap(declaration.declarator) = visitor_name
       /\ IsSome(declaration.initializer)
    THEN string_constant_from_initializer(Unwrap(declaration.initializer))
    ELSE value

\* StringConstantVisitor::visit_init_declarator: the visitor's value after
\* the call.
visit_init_declarator(value, visitor_name, declaration) ==
    IF IsSome(value) THEN value
    ELSE IF IsSome(declaration.declarator)
            /\ Unwrap(declaration.declarator) = visitor_name
            /\ IsSome(declaration.initializer)
    THEN string_constant_from_initializer(Unwrap(declaration.initializer))
    ELSE value

\* The walk of the signature visitor over the declarators of one declaration.
RECURSIVE VisitInitDeclarators(_, _, _, _)
VisitInitDeclarators(value, visitor_name, declarators, i) ==
    IF i > Len(declarators) THEN value
    ELSE VisitInitDeclarators(visit_init_declarator(value, visitor_name, declarators[i]),
                              visitor_name, declarators, i + 1)

\* ------------------------------------------------------------------------
\* registers_generator.rs
\* ------------------------------------------------------------------------

\* Mutant of TypeTable: one more arm, Bool.
TypeTable_WithBool ==
    << <<"U8", "u8">>, <<"U16", "u16">>, <<"U32", "u32">>, <<"U64", "u64">>,
       <<"I8", "i8">>, <<"I16", "i16">>, <<"I32", "i32">>, <<"I64", "i64">>,
       <<"Sgl", "f32">>, <<"Dbl", "f64">>, <<"Bool", "bool">> >>

\* The match of type_string_to_type: vendor type tag, target numeric type.
TypeTable ==
    << <<"U8", "u8">>, <<"U16", "u16">>, <<"U32", "u32">>, <<"U64", "u64">>,
       <<"I8", "i8">>, <<"I16", "i16">>, <<"I32", "i32">>, <<"I64", "i64">>,
       <<"Sgl", "f32">>, <<"Dbl", "f64">> >>

\* type_string_to_type : the target type, None for the panic of the last arm.
type_string_to_type(type_string) ==
    LET hits == {i \in 1..Len(TypeTable) : TypeTable[i][1] = type_string}
    IN  IF hits = {} THEN None ELSE Some(TypeTable[CHOOSE i \in hits : TRUE][2])

\* One generated declaration: pub const name: accessor<ty[, size]> =
\* accessor::new(address); address and size are the literal texts.
Declaration(name, accessor, ty, address, size) ==
    [name |-> name, accessor |-> accessor, ty |-> ty, address |-> address, size |-> size]

\* Mutant of generate_address_definition: the two FIFO arms are exchanged.
generate_address_definition_SwappedFifos(definition, address, array_size) ==
    LET name == definition.name
        ty == type_string_to_type(definition.datatype)
        address_text == "0x" \o UpperHex(address)
    IN  IF ~IsSome(ty) THEN Panic(UnknownType \o " " \o definition.datatype)
        ELSE IF definition.kind \in {"Control", "Indicator"}
        THEN Ok(<<Declaration(name, "Register", Unwrap(ty), address_text, None)>>)
        ELSE IF definition.kind \in {"ControlArray", "IndicatorArray"}
        THEN IF ~IsSome(array_size) THEN Panic(NeedSize)
             ELSE Ok(<<Declaration(name, "ArrayRegister", Unwrap(ty), address_text,
                                   Some(Display(Unwrap(array_size))))>>)
        ELSE IF definition.kind \in {"ControlArraySize", "IndicatorArraySize"}
        THEN Ok(<<>>)
        ELSE IF definition.kind = "HostToTargetFifo"
        THEN Ok(<<Declaration(name, "ReadFifo", Unwrap(ty), address_text, None)>>)
        ELSE Ok(<<Declaration(name, "WriteFifo", Unwrap(ty), address_text, None)>>)

\* generate_address_definition : the emitted declarations (none or one), or a
\* panic.
generate_address_definition(definition, address, array_size) ==
    LET name == definition.name
        ty == type_string_to_type(definition.datatype)
        address_text == "0x" \o UpperHex(address)
    IN  IF ~IsSome(ty) THEN Panic(UnknownType \o " " \o definition.datatype)
        ELSE IF definition.kind \in {"Control", "Indicator"}
        THEN Ok(<<Declaration(name, "Register", Unwrap(ty), address_text, None)>>)
        ELSE IF definition.kind \in {"ControlArray", "IndicatorArray"}
        THEN IF ~IsSome(array_size) THEN Panic(NeedSize)
             ELSE Ok(<<Declaration(name, "ArrayRegister", Unwrap(ty), address_text,
                                   Some(Display(Unwrap(array_size))))>>)
        ELSE IF definition.kind \in {"ControlArraySize", "IndicatorArraySize"}
        THEN Ok(<<>>)
        ELSE IF definition.kind = "HostToTargetFifo"
        THEN Ok(<<Declaration(name, "WriteFifo", Unwrap(ty), address_text, None)>>)
        ELSE Ok(<<Declaration(name, "ReadFifo", Unwrap(ty), address_text, None)>>)

\* Mutant of register_module_entry: the element count is the value of the
\* first size entry of the kind, whatever its name.
register_module_entry_FirstSize(registers, def, address) ==
    IF def.kind \in {"Control", "Indicator"}
    THEN generate_address_definition(def, address, None)
    ELSE IF def.kind \in {"ControlArray", "IndicatorArray"}
    THEN LET sizes == {i \in 1..Len(registers) :
                          registers[i].key.kind = with_size(def.kind)}
         IN  IF sizes = {} THEN Panic(ArraySizeNotFound)
             ELSE generate_address_definition(def, address,
                      Some(registers[CHOOSE i \in sizes : \A j \in sizes : i <= j].value))
    ELSE Ok(<<>>)

\* Mutant of register_module_entry: a missing size entry counts as size 0.
register_module_entry_DefaultSize(registers, def, address) ==
    IF def.kind \in {"Control", "Indicator"}
    THEN generate_address_definition(def, address, None)
    ELSE IF def.kind \in {"ControlArray", "IndicatorArray"}
    THEN LET size_def == [def EXCEPT !.kind = with_size(def.kind)]
             array_size == BTreeGet(registers, size_def)
         IN  IF ~IsSome(array_size)
             THEN generate_address_definition(def, address, Some(<<0, 0>>))
             ELSE generate_address_definition(def, address, array_size)
    ELSE Ok(<<>>)

\* Mutant of register_module_entry: the FIFO arm generates as well.
register_module_entry_WithFifos(registers, def, address) ==
    IF def.kind \in {"Control", "Indicator", "HostToTargetFifo", "TargetToHostFifo"}
    THEN generate_address_definition(def, address, None)
    ELSE IF def.kind \in {"ControlArray", "IndicatorArray"}
    THEN LET size_def == [def EXCEPT !.kind = with_size(def.kind)]
             array_size == BTreeGet(registers, size_def)
         IN  IF ~IsSome(array_size) THEN Panic(ArraySizeNotFound)
             ELSE generate_address_definition(def, address, array_size)
    ELSE Ok(<<>>)

\* The body of the loop of generate_register_module for one entry: the
\* declarations it appends, or a panic.
register_module_entry(registers, def, address) ==
    IF def.kind \in {"Control", "Indicator"}
    THEN generate_address_definition(def, address, None)
    ELSE IF def.kind \in {"ControlArray", "IndicatorArray"}
    THEN LET size_def == [def EXCEPT !.kind = with_size(def.kind)]
             array_size == BTreeGet(registers, size_def)
         IN  IF ~IsSome(array_size) THEN Panic(ArraySizeNotFound)
             ELSE generate_address_definition(def, address, array_size)
    ELSE Ok(<<>>)

\* The loop of generate_register_module from entry i on, tokens being what
\* was appended so far.
RECURSIVE RegisterModuleLoop(_, _, _)
RegisterModuleLoop(registers, i, tokens) ==
    IF i > Len(registers) THEN Ok(tokens)
    ELSE LET register == register_module_entry(registers, registers[i].key,
                                               registers[i].value)
         IN  IF register.err # NoError THEN register
             ELSE RegisterModuleLoop(registers, i + 1, tokens \o Unwrap(register.val))

\* generate_register_module : the declarations of pub mod registers.
generate_register_module(registers) == RegisterModuleLoop(registers, 1, <<>>)

\* The body of the loop of generate_fifo_module for one entry.
fifo_module_entry(def, address) ==
    IF def.kind \in {"HostToTargetFifo", "TargetToHostFifo"}
    THEN generate_address_definition(def, address, None)
    ELSE Ok(<<>>)

\* The loop of generate_fifo_module from entry i on.
RECURSIVE FifoModuleLoop(_, _, _)
FifoModuleLoop(addresses, i, tokens) ==
    IF i > Len(addresses) THEN Ok(tokens)
    ELSE LET register == fifo_module_entry(addresses[i].key, addresses[i].value)
         IN  IF register.err # NoError THEN register
             ELSE FifoModuleLoop(addresses, i + 1, tokens \o Unwrap(register.val))

\* generate_fifo_module : the declarations of pub mod fifos.
generate_fifo_module(addresses) == FifoModuleLoop(addresses, 1, <<>>)

\* ------------------------------------------------------------------------
\* bindings_parser.rs: the text of the generated file
\* ------------------------------------------------------------------------

\* The text of one declaration.
RenderDeclaration(d) ==
    "    pub const " \o d.name \o ": " \o d.accessor \o "<" \o d.ty
    \o (IF IsSome(d.size) THEN ", " \o Unwrap(d.size) ELSE "")
    \o "> = " \o d.accessor \o "::new(" \o d.address \o ");\n"

RECURSIVE RenderDeclarations(_, _)
RenderDeclarations(tokens, i) ==
    IF i > Len(tokens) THEN ""
    ELSE RenderDeclaration(tokens[i]) \o RenderDeclarations(tokens, i + 1)

\* generate_metadata_output
generate_metadata_output(signature) ==
    "#[allow(dead_code)]\npub const SIGNATURE: &str = \"" \o signature \o "\";\n"

\* The text generate_rust_output returns for the three token streams.
RenderOutput(signature, registers_tokens, fifos_tokens) ==
    generate_metadata_output(signature)
    \o "#[allow(non_upper_case_globals)]\n#[allow(dead_code)]\npub mod registers {\n"
    \o "    use ni_fpga_interface::registers::{ArrayRegister, Register};\n"
    \o RenderDeclarations(registers_tokens, 1)
    \o "}\n"
    \o "#[allow(non_upper_case_globals)]\n#[allow(dead_code)]\npub mod fifos {\n"
    \o "    use ni_fpga_interface::fifos::{ReadFifo, WriteFifo};\n"
    \o RenderDeclarations(fifos_tokens, 1)
    \o "}\n"

\* ------------------------------------------------------------------------
\* Inputs: the declarations a translation unit is made of
\* ------------------------------------------------------------------------

\* The interface name the build is run for (NiFpga_Main.h).
InterfaceName == "Main"

\* A constant that is not an integer.
Float(number) ==
    [kind |-> "Float", base |-> "", number |-> number, strings |-> <<>>]

\* An integer literal.
Integer(base, number) ==
    [kind |-> "Integer", base |-> base, number |-> number, strings |-> <<>>]

\* A string literal; the text keeps its quotes.
StringLiteral(text) ==
    [kind |-> "StringLiteral", base |-> "", number |-> "", strings |-> <<text>>]

Enumerator(identifier, expression) ==
    [identifier |-> identifier, expression |-> Some(expression)]

Specifier(kind) == [kind |-> kind, enumerators |-> <<>>]

\* typedef enum { enumerators } name;
TypedefEnum(name, enumerators) ==
    [specifiers |-> <<Specifier("Typedef"), [kind |-> "Enum", enumerators |-> enumerators]>>,
     declarators |-> <<[declarator |-> Some(name), initializer |-> None]>>]

\* static const char* const name = "text";
StringConstant(name, text) ==
    [specifiers |-> <<Specifier("Static"), Specifier("Const"), Specifier("Char")>>,
     declarators |-> <<[declarator |-> Some(name),
                        initializer |-> Some(StringLiteral(text))]>>]

\* static const int name = number;
IntConstant(name, number) ==
    [specifiers |-> <<Specifier("Static"), Specifier("Const"), Specifier("Int")>>,
     declarators |-> <<[declarator |-> Some(name),
                        initializer |-> Some(Integer("Decimal", number))]>>]

\* typedef struct name { ... } name;
TypedefStruct(name) ==
    [specifiers |-> <<Specifier("Typedef"), Specifier("Struct")>>,
     declarators |-> <<[declarator |-> Some(name), initializer |-> None]>>]

\* What a translation unit starts with: nothing, the signature constant of
\* the interface, or a string constant of another name.
Fronts ==
    { <<>>,
      <<StringConstant("NiFpga_Main_Signature", "\"E3E0C23C\"")>>,
      <<StringConstant("NiFpga_Main_Test", "\"E3E0C23C\"")>> }

\* The declarations the rest of a translation unit is drawn from.
Pool ==
    << TypedefEnum("NiFpga_Main_ControlU8",
           <<Enumerator("NiFpga_Main_ControlU8_U8Control", Integer("Hexadecimal", "18002")),
             Enumerator("NiFpga_Main_ControlU8_U8Sum", Integer("Hexadecimal", "18006"))>>),
       TypedefEnum("NiFpga_Main_IndicatorU8",
           <<Enumerator("NiFpga_Main_IndicatorU8_U8Result", Integer("Hexadecimal", "1800A")),
             Enumerator("NiFpga_Main_IndicatorU8_U8Sum", Integer("Hexadecimal", "1801A"))>>),
       TypedefEnum("NiFpga_Main_ControlArrayU8",
           <<Enumerator("NiFpga_Main_ControlArrayU8_U8ControlArray", Integer("Hexadecimal", "18014")),
             Enumerator("NiFpga_Main_ControlArrayU8_U8SumArray", Integer("Hexadecimal", "18010"))>>),
       TypedefEnum("NiFpga_Main_ControlArrayU8Size",
           <<Enumerator("NiFpga_Main_ControlArrayU8Size_U8ControlArray", Integer("Decimal", "4")),
             Enumerator("NiFpga_Main_ControlArrayU8Size_U8SumArray", Integer("Decimal", "2"))>>),
       TypedefEnum("NiFpga_Main_IndicatorArrayI16",
           <<Enumerator("NiFpga_Main_IndicatorArrayI16_ResultArray", Integer("Hexadecimal", "1800C"))>>),
       TypedefEnum("NiFpga_Main_IndicatorArrayI16Size",
           <<Enumerator("NiFpga_Main_IndicatorArrayI16Size_ResultArray", Integer("Decimal", "3"))>>),
       TypedefEnum("NiFpga_Main_HostToTargetFifoU8",
           <<Enumerator("NiFpga_Main_HostToTargetFifoU8_ToFpga", Integer("Decimal", "1"))>>),
       TypedefEnum("NiFpga_Main_TargetToHostFifoSgl",
           <<Enumerator("NiFpga_Main_TargetToHostFifoSgl_FromFpga", Integer("Decimal", "2"))>>),
       TypedefEnum("NiFpga_Main_ControlBool",
           <<Enumerator("NiFpga_Main_ControlBool_Flag", Integer("Hexadecimal", "1800E"))>>),
       TypedefEnum("NiFpga_Main_HostToTargetFifoBool",
           <<Enumerator("NiFpga_Main_HostToTargetFifoBool_Flags", Integer("Decimal", "3"))>>),
       TypedefEnum("NiFpga_Main_ControlU8",
           <<Enumerator("NiFpga_Main_ControlU8_Copy_U8Control", Integer("Decimal", "98338"))>>),
       TypedefStruct("NiFpga_FxpTypeInfo"),
       TypedefEnum("NiFpga_Other_ControlU8",
           <<Enumerator("NiFpga_Other_ControlU8_U8Control", Integer("Hexadecimal", "18002"))>>),
       TypedefEnum("NiFpga_Main_FxpU8",
           <<Enumerator("NiFpga_Main_FxpU8_Value", Integer("Hexadecimal", "18030"))>>),
       StringConstant("NiFpga_Main_Signature", "\"A1B2\""),
       StringConstant("Signature", "\"E3E0C23C\""),
       IntConstant("NiFpga_Main_Signature", "5"),
       TypedefEnum("NiFpga_Main_IndicatorU32",
           <<Enumerator("NiFpga_Main_IndicatorU32_Count", Integer("Hexadecimal", "100000000"))>>),
       TypedefEnum("NiFpga_Main_IndicatorSgl",
           <<Enumerator("NiFpga_Main_IndicatorSgl_Level", Float("1.5"))>>) >>

\* The choices of declarations: every sequence of at most MaxDecls different
\* declarations of the pool, behind every front.
Picks ==
    UNION { {f \in [1..n -> 1..Len(Pool)] : \A i, j \in 1..n : i # j => f[i] # f[j]}
            : n \in 0..MaxDecls }

Units == { front \o [i \in 1..Len(f) |-> Pool[f[i]]] : front \in Fronts, f \in Picks }

\* ------------------------------------------------------------------------
\* State
\* ------------------------------------------------------------------------

VARIABLES
    unit,              \* the parsed translation unit: its declarations
    pc,                \* the step of build_rust_interface the build is at
    idx,               \* the next declaration the running visitor visits
    value,             \* StringConstantVisitor::value
    registers,         \* AddressDefinitionsVisitor::registers, then
                       \* InterfaceDescription::registers
    signature,         \* InterfaceDescription::signature
    registers_tokens,  \* the declarations of pub mod registers
    fifos_tokens,      \* the declarations of pub mod fifos
    mod_file,          \* the contents of NiFpga_<Interface>.rs
    err                \* the panic that ended the build, NoError if none

\* The functions of the build script that are run on their own.
VARIABLES
    header,            \* the header file header_to_temp_no_includes reads
    temp_file,         \* the file it writes in the temporary directory
    discriminant,      \* the expression value_from_discriminant is given
    parsed             \* what value_from_discriminant returned

helperVars == <<header, temp_file, discriminant, parsed>>

\* The state of the build script (ni-fpga-interface-build).
buildVars == <<unit, pc, idx, value, registers, signature, registers_tokens,
               fifos_tokens, mod_file, err, helperVars>>

\* No build runs in the application.
BuildIdle ==
    /\ unit = <<>>
    /\ pc = "off"
    /\ idx = 1
    /\ value = None
    /\ registers = BTreeNew
    /\ signature = None
    /\ registers_tokens = None
    /\ fifos_tokens = None
    /\ mod_file = None
    /\ err = NoError

\* No helper function is run on its own.
HelpersIdle ==
    /\ header = <<>> /\ temp_file = None
    /\ discriminant = None /\ parsed = None

\* The state of the run-time library (ni-fpga-interface): contexts and
\* sessions, zero-copy FIFO regions, timeouts, IRQ selections.
VARIABLES
    CONTEXT_ACTIVE,    \* the static AtomicBool of session/mod.rs
    initializing,      \* calls of NiFpgaContext::new between the exchange and
                       \* NiFpga_Initialize
    contexts,          \* per NiFpgaContext: where its life is, and the strong
                       \* count of its Arc
    handles,           \* per NiFpgaContext: the Arcs the application holds
    sessions,          \* per Session: where its life is, and its _context
    rejected,          \* the calls of new that returned ContextAlreadyActive
    history            \* the calls of the driver and the drops of the
                       \* application's handles, in order

sessionVars ==
    <<CONTEXT_ACTIVE, initializing, contexts, handles, sessions, rejected, history>>

VARIABLES
    regions,           \* per FifoReadRegion / FifoWriteRegion: its fifo, the
                       \* length of its elements, and whether it is held
    fifo_calls,        \* the FIFO calls of the driver, in order
    timeout,           \* the timeout argument of ReadFifo::read
    timeout_ms,        \* the FpgaTimeoutMs the driver was called with
    selection,         \* IrqSelection.0
    irq_calls,         \* the IRQ numbers passed to new and to add_irq
    listed             \* what iter() of the selection yielded

regionVars == <<regions, fifo_calls>>

timeoutVars == <<timeout, timeout_ms>>

irqVars == <<selection, irq_calls, listed>>

runtimeVars == <<sessionVars, regionVars, timeoutVars, irqVars>>

vars == <<buildVars, runtimeVars>>

\* AddressDefinitionsVisitor::new : the prefix of the visitor.
\* The run-time library is not part of a build.
RuntimeIdle ==
    /\ CONTEXT_ACTIVE = FALSE
    /\ initializing = 0
    /\ contexts = <<>>
    /\ handles = <<>>
    /\ sessions = <<>>
    /\ rejected = 0
    /\ history = <<>>
    /\ regions = <<>> /\ fifo_calls = <<>>
    /\ timeout = None /\ timeout_ms = None
    /\ selection = <<0, 0>> /\ irq_calls = <<>> /\ listed = None

VisitorPrefix == "NiFpga_" \o InterfaceName \o "_"

\* StringConstantVisitor::new(prefix, "Signature") : the name looked for.
SignatureName == "NiFpga_" \o InterfaceName \o "_" \o "Signature"

Init ==
    /\ unit \in Units
    /\ pc = "parse"
    /\ idx = 1
    /\ value = None
    /\ registers = BTreeNew
    /\ signature = None
    /\ registers_tokens = None
    /\ fifos_tokens = None
    /\ mod_file = None
    /\ err = NoError
    /\ HelpersIdle
    /\ RuntimeIdle

\* ------------------------------------------------------------------------
\* Actions
\* ------------------------------------------------------------------------

\* parse_bindings: the header is copied without its include lines,
\* preprocessed and parsed.  The text is either rejected, which panics, or
\* accepted with the translation unit as its syntax tree, which read_ast gets.
ParseBindings ==
    /\ err = NoError
    /\ pc = "parse"
    /\ UNCHANGED <<runtimeVars, helperVars>>
    /\ \E accepted \in BOOLEAN :
           IF accepted
           THEN pc' = "sig" /\ err' = NoError
           ELSE pc' = pc /\ err' = ParseFailure
    /\ UNCHANGED <<unit, idx, value, registers, signature, registers_tokens,
                   fifos_tokens, mod_file>>

\* read_ast: the signature visitor walks one declaration of the unit and is
\* called for each of its init declarators.
StringVisitDeclaration ==
    /\ err = NoError
    /\ pc = "sig"
    /\ UNCHANGED <<runtimeVars, helperVars>>
    /\ idx <= Len(unit)
    /\ value' = VisitInitDeclarators(value, SignatureName, unit[idx].declarators, 1)
    /\ idx' = idx + 1
    /\ UNCHANGED <<unit, pc, registers, signature, registers_tokens, fifos_tokens,
                   mod_file, err>>

\* read_ast: the signature visitor is through, the address visitor starts.
StartAddressVisit ==
    /\ err = NoError
    /\ pc = "sig"
    /\ UNCHANGED <<runtimeVars, helperVars>>
    /\ idx > Len(unit)
    /\ pc' = "addr"
    /\ idx' = 1
    /\ UNCHANGED <<unit, value, registers, signature, registers_tokens, fifos_tokens,
                   mod_file, err>>

\* AddressDefinitionsVisitor::visit_declaration on the next declaration.
VisitDeclaration ==
    /\ err = NoError
    /\ pc = "addr"
    /\ UNCHANGED <<runtimeVars, helperVars>>
    /\ idx <= Len(unit)
    /\ LET visited == visit_declaration(registers, VisitorPrefix, unit[idx])
       IN  /\ registers' = visited.registers
           /\ err' = visited.err
    /\ idx' = idx + 1
    /\ UNCHANGED <<unit, pc, value, signature, registers_tokens, fifos_tokens, mod_file>>

\* Mutant of ReadAstReturn: unwrap_or_default in place of expect.
ReadAstReturn_DefaultSignature ==
    /\ err = NoError
    /\ pc = "addr"
    /\ UNCHANGED <<runtimeVars, helperVars>>
    /\ idx > Len(unit)
    /\ signature' = IF IsSome(value) THEN value ELSE Some("")
    /\ pc' = "gen_regs"
    /\ UNCHANGED <<unit, idx, value, registers, registers_tokens, fifos_tokens,
                   mod_file, err>>

\* read_ast: both visitors are through; the description is built, which
\* panics without a signature.
ReadAstReturn ==
    /\ err = NoError
    /\ pc = "addr"
    /\ UNCHANGED <<runtimeVars, helperVars>>
    /\ idx > Len(unit)
    /\ IF IsSome(value)
       THEN /\ signature' = value
            /\ pc' = "gen_regs"
            /\ err' = NoError
       ELSE /\ err' = NoSignature
            /\ UNCHANGED <<signature, pc>>
    /\ UNCHANGED <<unit, idx, value, registers, registers_tokens, fifos_tokens, mod_file>>

\* generate_rust_output: generate_register_module.
GenerateRegisterModule ==
    /\ err = NoError
    /\ pc = "gen_regs"
    /\ UNCHANGED <<runtimeVars, helperVars>>
    /\ LET module == generate_register_module(registers)
       IN  IF module.err = NoError
           THEN /\ registers_tokens' = Some(Unwrap(module.val))
                /\ pc' = "gen_fifos"
                /\ err' = NoError
           ELSE /\ err' = module.err
                /\ UNCHANGED <<registers_tokens, pc>>
    /\ UNCHANGED <<unit, idx, value, registers, signature, fifos_tokens, mod_file>>

\* generate_rust_output: generate_fifo_module.
GenerateFifoModule ==
    /\ err = NoError
    /\ pc = "gen_fifos"
    /\ UNCHANGED <<runtimeVars, helperVars>>
    /\ LET module == generate_fifo_module(registers)
       IN  IF module.err = NoError
           THEN /\ fifos_tokens' = Some(Unwrap(module.val))
                /\ pc' = "write"
                /\ err' = NoError
           ELSE /\ err' = module.err
                /\ UNCHANGED <<fifos_tokens, pc>>
    /\ UNCHANGED <<unit, idx, value, registers, signature, registers_tokens, mod_file>>

\* Mutant of WriteOutput: the file is created with the metadata before the
\* modules are generated.
WriteOutput_BeforeGeneration ==
    /\ err = NoError
    /\ pc = "gen_regs"
    /\ UNCHANGED <<runtimeVars, helperVars>>
    /\ mod_file = None
    /\ mod_file' = Some(RenderOutput(Unwrap(signature), <<>>, <<>>))
    /\ UNCHANGED <<unit, pc, idx, value, registers, signature, registers_tokens,
                   fifos_tokens, err>>

\* build_rust_interface: std::fs::write of the text generate_rust_output
\* returned.
WriteOutput ==
    /\ err = NoError
    /\ pc = "write"
    /\ UNCHANGED <<runtimeVars, helperVars>>
    /\ mod_file' = Some(RenderOutput(Unwrap(signature), Unwrap(registers_tokens),
                                     Unwrap(fifos_tokens)))
    /\ pc' = "done"
    /\ UNCHANGED <<unit, idx, value, registers, signature, registers_tokens,
                   fifos_tokens, err>>

Next ==
    \/ ParseBindings
    \/ StringVisitDeclaration
    \/ StartAddressVisit
    \/ VisitDeclaration
    \/ ReadAstReturn
    \/ GenerateRegisterModule
    \/ GenerateFifoModule
    \/ WriteOutput

Spec == Init /\ [][Next]_vars

\* ------------------------------------------------------------------------
\* bindings_parser.rs: header_to_temp_no_includes
\* ------------------------------------------------------------------------

\* How many lines a header has.
MaxLines == 3

\* The lines a header is made of: [text, ending], the ending "\n" or "\r\n".
HeaderLines ==
    {[text |-> text, ending |-> "\n"] :
        text \in {"#include <stdint.h>", "#include \"NiFpga.h\"", "#includes",
                  "  #include <stddef.h>", "int x; /* #include */",
                  "typedef int NiFpga_Session;", ""}}
    \union {[text |-> "#include \"NiFpga.h\"", ending |-> "\r\n"],
            [text |-> "typedef int NiFpga_Session;", ending |-> "\r\n"]}

\* The header files: up to MaxLines lines; the last line may lack its ending.
Headers ==
    UNION { {[k \in 1..Len(f) |->
                 IF k = Len(f) /\ ~closed /\ f[k].text # ""
                 THEN [f[k] EXCEPT !.ending = ""] ELSE f[k]]
             : f \in [1..n -> HeaderLines], closed \in BOOLEAN}
            : n \in 0..MaxLines }

\* The bytes of a header file.
RECURSIVE FileContents(_)
FileContents(file) ==
    IF Len(file) = 0 THEN ""
    ELSE file[1].text \o file[1].ending \o FileContents(Tail(file))

\* BufRead::lines: the text is cut behind each "\n"; a line loses its "\n"
\* and a "\r" before it; text behind the last "\n" is a line of its own.
RECURSIVE lines(_)
lines(text) ==
    LET ends == {i \in 1..Len(text) : CharAt(text, i) = "\n"}
    IN  IF Len(text) = 0 THEN <<>>
        ELSE IF ends = {} THEN <<text>>
        ELSE LET e == CHOOSE i \in ends : \A j \in ends : i <= j
                 line == SubSeq(text, 1, e - 1)
             IN  <<IF EndsWith(line, "\r") THEN SubSeq(line, 1, Len(line) - 1) ELSE line>>
                 \o lines(SubSeq(text, e + 1, Len(text)))

\* let common_types = r#"..."#
common_types ==
    "\ntypedef unsigned char uint8_t;\ntypedef short int16_t;\ntypedef int int32_t;\n"
    \o "typedef unsigned int uint32_t;\ntypedef unsigned long long uint64_t;\n"
    \o "typedef long long int64_t;\ntypedef uint8_t NiFpga_Bool;\n\n"
    \o "typedef struct NiFpga_FxpTypeInfo\n{\n    NiFpga_Bool isSigned;\n"
    \o "    uint8_t wordLength;\n    int16_t integerWordLength;\n} NiFpga_FxpTypeInfo;\n\n"

\* Mutant of WriteLines: a line that contains #include anywhere is left out.
RECURSIVE WriteLines_Contains(_, _)
WriteLines_Contains(output, input) ==
    IF Len(input) = 0 THEN output
    ELSE WriteLines_Contains(
             IF \E i \in 1..Len(input[1]) : StartsWith(SubSeq(input[1], i, Len(input[1])),
                                                       "#include")
             THEN output ELSE output \o input[1] \o "\n",
             Tail(input))

\* The loop of header_to_temp_no_includes: writeln! of every line that does
\* not start with #include.
RECURSIVE WriteLines(_, _)
WriteLines(output, input) ==
    IF Len(input) = 0 THEN output
    ELSE WriteLines(IF ~StartsWith(input[1], "#include")
                    THEN output \o input[1] \o "\n" ELSE output,
                    Tail(input))

\* header_to_temp_no_includes: the temporary file is created empty, the
\* common types are written, then the lines of the header.
HeaderToTempNoIncludes ==
    /\ temp_file = None
    /\ temp_file' = Some(WriteLines(common_types, lines(FileContents(header))))
    /\ UNCHANGED <<unit, pc, idx, value, registers, signature, registers_tokens,
                   fifos_tokens, mod_file, err, header, discriminant, parsed, runtimeVars>>

HeaderInit ==
    /\ BuildIdle /\ RuntimeIdle
    /\ header \in Headers
    /\ temp_file = None /\ discriminant = None /\ parsed = None

HeaderSpec == HeaderInit /\ [][HeaderToTempNoIncludes]_vars

\* ------------------------------------------------------------------------
\* address_definitions.rs: value_from_discriminant on its own
\* ------------------------------------------------------------------------

\* The numbers of the integer literals, as u32: small ones, 0x18002, and
\* the ones around 2^16, 2^31 and 2^32.
Numbers ==
    {<<0, 0>>, <<0, 1>>, <<0, 7>>, <<0, 8>>, <<0, 10>>, <<0, 255>>, <<0, 65535>>,
     <<1, 0>>, <<1, 32770>>, <<4660, 22136>>, <<32767, 65535>>, <<32768, 0>>,
     <<43981, 61185>>, <<65535, 65534>>, <<65535, 65535>>}

\* The expressions an enumerator can have: the literals of the numbers in
\* the four bases, a hexadecimal literal in lower case, the literals of
\* 2^32 and of 2^32 + 1, a floating constant, a string and an identifier.
Discriminants ==
    {Integer(b[1], Digits(n, b[2])) :
        n \in Numbers,
        b \in {<<"Decimal", 10>>, <<"Hexadecimal", 16>>, <<"Octal", 8>>, <<"Binary", 2>>}}
    \union {Integer("Hexadecimal", "abcdef01"),
            Integer("Hexadecimal", "100000000"), Integer("Decimal", "4294967296"),
            Integer("Octal", "40000000000"), Integer("Decimal", "4294967297"),
            Integer("Binary", "100000000000000000000000000000000"),
            Float("1.5"), StringLiteral("\"98306\""),
            [kind |-> "Identifier", base |-> "", number |-> "", strings |-> <<>>]}

\* value_from_discriminant is called with the expression.
ValueFromDiscriminant ==
    /\ parsed = None
    /\ parsed' = Some(value_from_discriminant(Unwrap(discriminant)))
    /\ UNCHANGED <<unit, pc, idx, value, registers, signature, registers_tokens,
                   fifos_tokens, mod_file, err, header, temp_file, discriminant,
                   runtimeVars>>

DiscriminantInit ==
    /\ BuildIdle /\ RuntimeIdle
    /\ header = <<>> /\ temp_file = None
    /\ discriminant \in {Some(e) : e \in Discriminants}
    /\ parsed = None

DiscriminantSpec == DiscriminantInit /\ [][ValueFromDiscriminant]_vars

\* ------------------------------------------------------------------------
\* ni-fpga-interface, session/mod.rs: NiFpgaContext and Session
\* ------------------------------------------------------------------------

\* How many contexts are created, sessions opened and calls of
\* NiFpgaContext::new made in a run of the application.
MaxContexts == 2

MaxSessions == 2

MaxNewCalls == 3

\* The entries of history.
NiFpga_Initialize(c, ok) == [op |-> "NiFpga_Initialize", context |-> c, session |-> 0, ok |-> ok]

NiFpga_Finalize(c) == [op |-> "NiFpga_Finalize", context |-> c, session |-> 0, ok |-> TRUE]

NiFpga_Open(s, c, ok) == [op |-> "NiFpga_Open", context |-> c, session |-> s, ok |-> ok]

NiFpga_Close(s, c) == [op |-> "NiFpga_Close", context |-> c, session |-> s, ok |-> TRUE]

\* The application drops its handle of context c: no driver call, an event.
DropOfHandle(c) == [op |-> "drop", context |-> c, session |-> 0, ok |-> TRUE]

\* The calls of NiFpgaContext::new made so far: those that returned and those
\* between the exchange and NiFpga_Initialize.
NewCalls ==
    initializing + rejected
    + Cardinality({i \in 1..Len(history) : history[i].op = "NiFpga_Initialize"})

\* The drop of one Arc<NiFpgaContext>: the strong count goes down, and the
\* thread that took it to zero runs Drop for NiFpgaContext.
ArcDrop(ctxs, c) ==
    [ctxs EXCEPT ![c] = [life |-> IF ctxs[c].strong = 1 THEN "finalize" ELSE ctxs[c].life,
                         strong |-> ctxs[c].strong - 1]]

\* The application starts with no build running and the library untouched.
SessionInit == BuildIdle /\ HelpersIdle /\ RuntimeIdle

\* Mutant of NewCompareExchange: no guard, every call goes on to initialize.
NewCompareExchange_NoGuard ==
    /\ NewCalls < MaxNewCalls
    /\ Len(contexts) + initializing < MaxContexts
    /\ CONTEXT_ACTIVE' = TRUE
    /\ initializing' = initializing + 1
    /\ UNCHANGED <<contexts, handles, sessions, rejected, history, buildVars, regionVars, timeoutVars, irqVars>>

\* NiFpgaContext::new, first step: compare_exchange(false, true) on
\* CONTEXT_ACTIVE; the call returns Err(ContextAlreadyActive) when it fails.
NewCompareExchange ==
    /\ NewCalls < MaxNewCalls
    /\ IF CONTEXT_ACTIVE = FALSE
       THEN /\ Len(contexts) + initializing < MaxContexts
            /\ CONTEXT_ACTIVE' = TRUE
            /\ initializing' = initializing + 1
            /\ UNCHANGED rejected
       ELSE /\ rejected' = rejected + 1
            /\ UNCHANGED <<CONTEXT_ACTIVE, initializing>>
    /\ UNCHANGED <<contexts, handles, sessions, history, buildVars, regionVars, timeoutVars, irqVars>>

\* NiFpgaContext::new, second step: NiFpga_Initialize, Arc::new(Self {}) and
\* to_fpga_result, which returns the Arc for a status that is no error and
\* drops it for an error status.
NewInitialize ==
    /\ initializing > 0
    /\ \E ok \in BOOLEAN :
           /\ history' = Append(history, NiFpga_Initialize(Len(contexts) + 1, ok))
           /\ contexts' = Append(contexts,
                                 IF ok THEN [life |-> "alive", strong |-> 1]
                                 ELSE [life |-> "finalize", strong |-> 0])
           /\ handles' = Append(handles, IF ok THEN 1 ELSE 0)
    /\ initializing' = initializing - 1
    /\ UNCHANGED <<CONTEXT_ACTIVE, sessions, rejected, buildVars, regionVars, timeoutVars, irqVars>>

\* The application drops its Arc<NiFpgaContext>.
DropHandle(c) ==
    /\ handles[c] = 1
    /\ handles' = [handles EXCEPT ![c] = 0]
    /\ contexts' = ArcDrop(contexts, c)
    /\ history' = Append(history, DropOfHandle(c))
    /\ UNCHANGED <<CONTEXT_ACTIVE, initializing, sessions, rejected, buildVars, regionVars, timeoutVars, irqVars>>

\* Drop for NiFpgaContext, first statement: NiFpga_Finalize.
ContextDropFinalize(c) ==
    /\ contexts[c].life = "finalize"
    /\ history' = Append(history, NiFpga_Finalize(c))
    /\ contexts' = [contexts EXCEPT ![c].life = "store"]
    /\ UNCHANGED <<CONTEXT_ACTIVE, initializing, handles, sessions, rejected, buildVars, regionVars, timeoutVars, irqVars>>

\* Mutant of ContextDropStore: the flag is left as it is.
ContextDropStore_NoStore(c) ==
    /\ contexts[c].life = "store"
    /\ contexts' = [contexts EXCEPT ![c].life = "dropped"]
    /\ UNCHANGED <<CONTEXT_ACTIVE, initializing, handles, sessions, rejected, history, buildVars, regionVars, timeoutVars, irqVars>>

\* Drop for NiFpgaContext, second statement: CONTEXT_ACTIVE.store(false).
ContextDropStore(c) ==
    /\ contexts[c].life = "store"
    /\ CONTEXT_ACTIVE' = FALSE
    /\ contexts' = [contexts EXCEPT ![c].life = "dropped"]
    /\ UNCHANGED <<initializing, handles, sessions, rejected, history, buildVars, regionVars, timeoutVars, irqVars>>

\* Mutant of SessionNew: the session keeps no Arc of the context.
SessionNew_NoClone(c) ==
    /\ handles[c] = 1
    /\ Len(sessions) < MaxSessions
    /\ \E ok \in BOOLEAN :
           /\ history' = Append(history, NiFpga_Open(Len(sessions) + 1, c, ok))
           /\ sessions' = Append(sessions,
                                 [life |-> IF ok THEN "open" ELSE "failed", context |-> c])
    /\ UNCHANGED <<CONTEXT_ACTIVE, initializing, contexts, handles, rejected, buildVars, regionVars, timeoutVars, irqVars>>

\* Session::new(&context, ..): NiFpga_Open, the Session built with
\* context.clone(), and to_fpga_result, which returns it for a status that is
\* no error and drops it for an error status.
SessionNew(c) ==
    /\ handles[c] = 1
    /\ Len(sessions) < MaxSessions
    /\ \E ok \in BOOLEAN :
           /\ history' = Append(history, NiFpga_Open(Len(sessions) + 1, c, ok))
           /\ sessions' = Append(sessions,
                                 [life |-> IF ok THEN "open" ELSE "failed", context |-> c])
    /\ contexts' = [contexts EXCEPT ![c].strong = @ + 1]
    /\ UNCHANGED <<CONTEXT_ACTIVE, initializing, handles, rejected, buildVars, regionVars, timeoutVars, irqVars>>

\* Session::close(self): NiFpga_Close; self is dropped when close returns.
SessionClose(s) ==
    /\ sessions[s].life = "open"
    /\ history' = Append(history, NiFpga_Close(s, sessions[s].context))
    /\ sessions' = [sessions EXCEPT ![s].life = "closed"]
    /\ UNCHANGED <<CONTEXT_ACTIVE, initializing, contexts, handles, rejected, buildVars, regionVars, timeoutVars, irqVars>>

\* Drop for Session: NiFpga_Close, for a session that goes out of scope, that
\* close(self) consumed or that to_fpga_result dropped.
SessionDrop(s) ==
    /\ sessions[s].life \in {"open", "closed", "failed"}
    /\ history' = Append(history, NiFpga_Close(s, sessions[s].context))
    /\ sessions' = [sessions EXCEPT ![s].life = "dropped"]
    /\ UNCHANGED <<CONTEXT_ACTIVE, initializing, contexts, handles, rejected, buildVars, regionVars, timeoutVars, irqVars>>

\* The fields of the dropped Session are dropped: its Arc<NiFpgaContext>.
SessionRelease(s) ==
    /\ sessions[s].life = "dropped"
    /\ sessions' = [sessions EXCEPT ![s].life = "released"]
    /\ contexts' = ArcDrop(contexts, sessions[s].context)
    /\ UNCHANGED <<CONTEXT_ACTIVE, initializing, handles, rejected, history, buildVars, regionVars, timeoutVars, irqVars>>

SessionNext ==
    \/ NewCompareExchange
    \/ NewInitialize
    \/ \E c \in 1..Len(contexts) : DropHandle(c)
    \/ \E c \in 1..Len(contexts) : ContextDropFinalize(c)
    \/ \E c \in 1..Len(contexts) : ContextDropStore(c)
    \/ \E c \in 1..Len(contexts) : SessionNew(c)
    \/ \E s \in 1..Len(sessions) : SessionClose(s)
    \/ \E s \in 1..Len(sessions) : SessionDrop(s)
    \/ \E s \in 1..Len(sessions) : SessionRelease(s)

SessionSpec == SessionInit /\ [][SessionNext]_vars

\* ------------------------------------------------------------------------
\* ni-fpga-interface, session/data_interfaces.rs: zero-copy FIFO regions
\* ------------------------------------------------------------------------

\* How many regions the application acquires.
MaxRegions == 2

\* The FIFO addresses and the element counts the application asks for.
Fifos == {1, 2}

ElementCounts == {1, 2}

\* The entries of fifo_calls.
NiFpga_AcquireFifoElements(r, direction, fifo, requested, acquired, ok) ==
    [op |-> "NiFpga_AcquireFifo" \o direction \o "Elements", region |-> r, fifo |-> fifo,
     requested |-> requested, elements |-> acquired, ok |-> ok]

NiFpga_ReleaseFifoElements(r, fifo, number_of_elements) ==
    [op |-> "NiFpga_ReleaseFifoElements", region |-> r, fifo |-> fifo,
     requested |-> 0, elements |-> number_of_elements, ok |-> TRUE]

\* FifoReadRegion / FifoWriteRegion { session, fifo, elements }, with the
\* count that was asked for.
Region(direction, fifo, requested, len, life) ==
    [direction |-> direction, fifo |-> fifo, requested |-> requested,
     len |-> len, life |-> life]

\* Mutant of RegionDrop: the count that was asked for is released.
RegionDrop_Requested(r) ==
    NiFpga_ReleaseFifoElements(r, regions[r].fifo, regions[r].requested)

\* Drop for FifoReadRegion / FifoWriteRegion: the driver call of
\* session.release_fifo_elements(self.fifo, self.elements.len()).
RegionDrop(r) ==
    NiFpga_ReleaseFifoElements(r, regions[r].fifo, regions[r].len)

\* What an acquire call leaves behind: the call of the driver, which sets
\* elements_acquired, the region built over that many elements, and
\* to_fpga_result, which returns the region for a status that is no error and
\* drops it for an error status.
Acquired(direction, fifo, elements, elements_acquired, ok) ==
    LET r == Len(regions) + 1
        call == NiFpga_AcquireFifoElements(r, direction, fifo, elements,
                                           elements_acquired, ok)
        built == Append(regions, Region(direction, fifo, elements, elements_acquired,
                                        IF ok THEN "held" ELSE "dropped"))
    IN  [regions |-> built,
         fifo_calls |-> IF ok THEN Append(fifo_calls, call)
                        ELSE Append(Append(fifo_calls, call),
                                    NiFpga_ReleaseFifoElements(r, built[r].fifo,
                                                               built[r].len))]

\* Session::zero_copy_read for one element type.
ZeroCopyRead(fifo, elements) ==
    /\ Len(regions) < MaxRegions
    /\ \E ok \in BOOLEAN, elements_acquired \in 0..elements :
           /\ regions' = Acquired("Read", fifo, elements, elements_acquired, ok).regions
           /\ fifo_calls' =
                  Acquired("Read", fifo, elements, elements_acquired, ok).fifo_calls
    /\ UNCHANGED <<buildVars, sessionVars, timeoutVars, irqVars>>

\* Session::zero_copy_write for one element type.
ZeroCopyWrite(fifo, elements) ==
    /\ Len(regions) < MaxRegions
    /\ \E ok \in BOOLEAN, elements_acquired \in 0..elements :
           /\ regions' = Acquired("Write", fifo, elements, elements_acquired, ok).regions
           /\ fifo_calls' =
                  Acquired("Write", fifo, elements, elements_acquired, ok).fifo_calls
    /\ UNCHANGED <<buildVars, sessionVars, timeoutVars, irqVars>>

\* The application drops a region it holds, or the region goes out of scope.
DropRegion(r) ==
    /\ regions[r].life = "held"
    /\ fifo_calls' = Append(fifo_calls, RegionDrop(r))
    /\ regions' = [regions EXCEPT ![r].life = "dropped"]
    /\ UNCHANGED <<buildVars, sessionVars, timeoutVars, irqVars>>

RegionNext ==
    \/ \E fifo \in Fifos, elements \in ElementCounts : ZeroCopyRead(fifo, elements)
    \/ \E fifo \in Fifos, elements \in ElementCounts : ZeroCopyWrite(fifo, elements)
    \/ \E r \in 1..Len(regions) : DropRegion(r)

RegionSpec == SessionInit /\ [][RegionNext]_vars

\* ------------------------------------------------------------------------
\* ni-fpga-interface, types.rs: FpgaTimeoutMs
\* ------------------------------------------------------------------------

\* Duration { secs, nanos }
Duration(secs, nanos) == [secs |-> secs, nanos |-> nanos]

\* The durations the application passes: around a second, a minute, and
\* around 2^31 and 2^32 milliseconds.
Durations ==
    {Duration(secs, nanos) :
        secs \in {0, 1, 59, 60, 2147483, 4294967, 4294968, 8589934},
        nanos \in {0, 999999, 1000000, 100000000, 295000000, 296000000,
                   647000000, 999999999}}

Timeouts == {None} \union {Some(d) : d \in Durations}

\* Duration::as_millis : u128, as the three 16 bit limbs <<top, hi, lo>> of
\* secs * 1000 + nanos / 1_000_000.
as_millis(duration) ==
    LET lo == (duration.secs % Half) * 1000 + duration.nanos \div 1000000
        hi == (duration.secs \div Half) * 1000 + lo \div Half
    IN  <<hi \div Half, hi % Half, lo % Half>>

\* FpgaTimeoutMs::INFINITE
INFINITE == <<65535, 65535>>

\* impl From<Duration> for FpgaTimeoutMs: `as u32` keeps the low 32 bits.
FromDuration(duration) == <<as_millis(duration)[2], as_millis(duration)[3]>>

\* impl From<Option<Duration>> for FpgaTimeoutMs
FromOptionDuration(duration) ==
    IF IsSome(duration) THEN FromDuration(Unwrap(duration)) ELSE INFINITE

\* The call of the driver a FIFO transfer ends in.
FifoCall(op, ms) == Some([op |-> op, timeout_ms |-> ms])

\* ReadFifo::read -> Session::read_fifo, which passes timeout.into().
ReadFifoRead(t) ==
    /\ timeout' = t
    /\ timeout_ms' = FifoCall("NiFpga_ReadFifo", FromOptionDuration(t))
    /\ UNCHANGED <<buildVars, sessionVars, regionVars, irqVars>>

\* WriteFifo::write -> Session::write_fifo, which passes timeout.into().
WriteFifoWrite(t) ==
    /\ timeout' = t
    /\ timeout_ms' = FifoCall("NiFpga_WriteFifo", FromOptionDuration(t))
    /\ UNCHANGED <<buildVars, sessionVars, regionVars, irqVars>>

TimeoutNext ==
    \/ \E t \in Timeouts : ReadFifoRead(t)
    \/ \E t \in Timeouts : WriteFifoWrite(t)

TimeoutSpec == SessionInit /\ [][TimeoutNext]_vars

\* ------------------------------------------------------------------------
\* ni-fpga-interface, types.rs: IrqSelection
\* ------------------------------------------------------------------------

\* How many times the application calls new and add_irq on one selection.
MaxIrqCalls == 2

\* The IRQ numbers of the claim.
IrqNumbers == 0..31

\* a | b and a & b on 16 bit halves.
RECURSIVE BitOr16(_, _)
BitOr16(a, b) ==
    IF a = 0 THEN b
    ELSE IF b = 0 THEN a
    ELSE (IF a % 2 = 1 \/ b % 2 = 1 THEN 1 ELSE 0) + 2 * BitOr16(a \div 2, b \div 2)

RECURSIVE BitAnd16(_, _)
BitAnd16(a, b) ==
    IF a = 0 \/ b = 0 THEN 0
    ELSE (IF a % 2 = 1 /\ b % 2 = 1 THEN 1 ELSE 0) + 2 * BitAnd16(a \div 2, b \div 2)

\* IrqSelection::new: IrqSelection(1 << irq), for irq < 32.
new(irq) == IF irq < 16 THEN <<0, 2 ^ irq>> ELSE <<2 ^ (irq - 16), 0>>

\* Mutant of add_irq: the selection is replaced by the new IRQ.
add_irq_Assign(self, irq) == new(irq)

\* IrqSelection::add_irq: self.0 |= IrqSelection::new(irq).0
add_irq(self, irq) ==
    <<BitOr16(self[1], new(irq)[1]), BitOr16(self[2], new(irq)[2])>>

\* IrqSelection::is_irq_set: self.0 & IrqSelection::new(irq).0 != 0
is_irq_set(self, irq) ==
    <<BitAnd16(self[1], new(irq)[1]), BitAnd16(self[2], new(irq)[2])>> # <<0, 0>>

\* IrqSelection::iter, collected: (0..32).filter(|irq| self.is_irq_set(*irq))
iter(self) ==
    SelectSeq([i \in 1..32 |-> i - 1], LAMBDA irq : is_irq_set(self, irq))

\* let mut selection = IrqSelection::new(irq);
IrqNew(irq) ==
    /\ irq_calls = <<>>
    /\ selection' = new(irq)
    /\ irq_calls' = <<irq>>
    /\ UNCHANGED <<listed, buildVars, sessionVars, regionVars, timeoutVars>>

\* selection.add_irq(irq); an iterator over the selection cannot outlive it.
AddIrq(irq) ==
    /\ irq_calls # <<>>
    /\ Len(irq_calls) < MaxIrqCalls
    /\ selection' = add_irq(selection, irq)
    /\ irq_calls' = Append(irq_calls, irq)
    /\ listed' = None
    /\ UNCHANGED <<buildVars, sessionVars, regionVars, timeoutVars>>

\* selection.iter().collect()
Iterate ==
    /\ irq_calls # <<>>
    /\ listed' = Some(iter(selection))
    /\ UNCHANGED <<selection, irq_calls, buildVars, sessionVars, regionVars, timeoutVars>>

IrqNext ==
    \/ \E irq \in IrqNumbers : IrqNew(irq)
    \/ \E irq \in IrqNumbers : AddIrq(irq)
    \/ Iterate

IrqSpec == SessionInit /\ [][IrqNext]_vars

\* ------------------------------------------------------------------------
\* Vocabulary of the properties: what the naming convention says about the
\* declarations of the unit, stated without the operators of the visitor.
\* ------------------------------------------------------------------------

\* The panics the address visitor can end with.
VisitorPanics == {UnwrapNone, UnwrapErr, UnexpectedConstant, UnexpectedExpression}

\* The address visitor went through the whole unit and returned.
AddressVisitDone == pc \notin {"parse", "sig"} /\ idx > Len(unit) /\ err \notin VisitorPanics

\* The number of declarations the address visitor went through and returned
\* from.
VisitedCount ==
    IF pc \in {"parse", "sig"} THEN 0
    ELSE IF err \in VisitorPanics THEN idx - 2
    ELSE idx - 1

\* The declaration is typedef enum { ... } name;
IsTypedefEnum(d) ==
    /\ \E k \in 1..Len(d.specifiers) : d.specifiers[k].kind = "Typedef"
    /\ \E k \in 1..Len(d.specifiers) : d.specifiers[k].kind = "Enum"
    /\ Len(d.declarators) = 1
    /\ d.declarators[1].declarator # <<>>

TypeNameOf(d) == d.declarators[1].declarator[1]

EnumeratorsOf(d) ==
    d.specifiers[CHOOSE k \in 1..Len(d.specifiers) : d.specifiers[k].kind = "Enum"].enumerators

InterfacePrefix == "NiFpga_Main_"

\* The type name without the interface prefix.
ShortNameOf(d) == SubSeq(TypeNameOf(d), Len(InterfacePrefix) + 1, Len(TypeNameOf(d)))

\* The kinds that have a prefix of their own; the prefix is the kind's name.
PrefixKinds ==
    {"ControlArray", "IndicatorArray", "Control", "Indicator",
     "TargetToHostFifo", "HostToTargetFifo"}

ArrayKinds == {"ControlArray", "IndicatorArray"}

SizeKinds == {"ControlArraySize", "IndicatorArraySize"}

RegisterKinds == {"Control", "Indicator", "ControlArray", "IndicatorArray"}

FifoKinds == {"HostToTargetFifo", "TargetToHostFifo"}

SizeKindOf(kind) == IF kind = "ControlArray" THEN "ControlArraySize" ELSE "IndicatorArraySize"

MatchingKinds(short) == {k \in PrefixKinds : StartsWith(short, k)}

\* The most specific kind whose prefix starts the short type name.
NamedKind(short) ==
    CHOOSE k \in MatchingKinds(short) : \A m \in MatchingKinds(short) : Len(m) <= Len(k)

IsSizeName(short) == NamedKind(short) \in ArrayKinds /\ EndsWith(short, "Size")

\* The kind and the datatype the naming convention gives a short type name.
KindOfName(short) ==
    IF IsSizeName(short) THEN SizeKindOf(NamedKind(short)) ELSE NamedKind(short)

DatatypeOfName(short) ==
    SubSeq(short, Len(NamedKind(short)) + 1,
           IF IsSizeName(short) THEN Len(short) - 4 ELSE Len(short))

\* The text after the last underscore of an identifier.
BareName(identifier) ==
    LET k == CHOOSE k \in 1..Len(identifier) :
                 /\ CharAt(identifier, k) = "_"
                 /\ \A m \in (k + 1)..Len(identifier) : CharAt(identifier, m) # "_"
    IN  SubSeq(identifier, k + 1, Len(identifier))

\* The number an integer literal of the pool denotes (all are below 2^31).
BaseValue == [Decimal |-> 10, Hexadecimal |-> 16, Octal |-> 8, Binary |-> 2]

DigitValue(c) == (CHOOSE k \in 1..16 : CharAt("0123456789ABCDEF", k) = c) - 1

RECURSIVE NumberValue(_, _)
NumberValue(number, base) ==
    IF Len(number) = 0 THEN 0
    ELSE NumberValue(SubSeq(number, 1, Len(number) - 1), base) * base
         + DigitValue(CharAt(number, Len(number)))

LiteralValue(expression) == NumberValue(expression.number, BaseValue[expression.base])

\* The declarations of the unit that are interface enumerations: typedef'd
\* enumerations named NiFpga_<Interface>_<KindPrefix><T>.
IsInterfaceEnum(d) ==
    /\ IsTypedefEnum(d)
    /\ StartsWith(TypeNameOf(d), InterfacePrefix)
    /\ MatchingKinds(ShortNameOf(d)) # {}

\* The enumerators <<i, j>> (declaration, position) of the first n
\* declarations that belong to interface enumerations.
ElementsUpTo(n) ==
    UNION { {<<i, j>> : j \in 1..Len(EnumeratorsOf(unit[i]))}
            : i \in {k \in 1..n : IsInterfaceEnum(unit[k])} }

Elements == ElementsUpTo(Len(unit))

\* The definition and the value the convention gives the enumerator <<i, j>>.
DefinitionOf(e) ==
    [kind |-> KindOfName(ShortNameOf(unit[e[1]])),
     name |-> BareName(EnumeratorsOf(unit[e[1]])[e[2]].identifier),
     datatype |-> DatatypeOfName(ShortNameOf(unit[e[1]]))]

ValueOf(e) == U32(LiteralValue(EnumeratorsOf(unit[e[1]])[e[2]].expression[1]))

\* e is visited before f.
Before(e, f) == e[1] < f[1] \/ (e[1] = f[1] /\ e[2] < f[2])

\* The AddressSet holds value under definition.
Maps(definition, v) ==
    \E k \in 1..Len(registers) : registers[k].key = definition /\ registers[k].value = v

\* ------------------------------------------------------------------------
\* Properties
\* ------------------------------------------------------------------------

\* C1 as stated: once the address visitor has visited the translation unit,
\* the AddressSet maps, for EVERY enumerator of an interface enumeration, the
\* definition {kind, text after the last underscore, datatype} to that
\* enumerator's own numeric value.
C1_EveryEnumeratorOwnValue ==
    AddressVisitDone => \A e \in Elements : Maps(DefinitionOf(e), ValueOf(e))

\* C1 (amended): once the address visitor has visited the translation unit,
\* the AddressSet maps, for every enumerator of an interface enumeration, the
\* definition {kind, text after the last underscore, datatype} to the numeric
\* value of the last visited enumerator that decodes to that definition: its
\* own value unless a later enumerator decodes to the same definition.
\* Several enumerators of one enumeration each have their entry.
C1_EnumeratorsMapped ==
    AddressVisitDone =>
        \A e \in Elements :
            \E last \in Elements :
                /\ DefinitionOf(last) = DefinitionOf(e)
                /\ \A f \in Elements : DefinitionOf(f) = DefinitionOf(e) => ~Before(last, f)
                /\ Maps(DefinitionOf(e), ValueOf(last))

\* Witness of C1: NiFpga_Main_ControlU8 { U8Control = 0x18002, U8Sum = 0x18006 }
\* was visited and both enumerators have their entry, 98306 and 98310.
C1_Witness ==
    /\ AddressVisitDone
    /\ Maps(LocationDefinition("Control", "U8Control", "U8"), U32(98306))
    /\ Maps(LocationDefinition("Control", "U8Sum", "U8"), U32(98310))

\* The interface enumerations among the first n declarations whose short type
\* name starts with the given text.
EnumsStarting(n, text) ==
    {i \in 1..n : IsInterfaceEnum(unit[i]) /\ StartsWith(ShortNameOf(unit[i]), text)}

\* The AddressSet has an entry of one of the kinds under the bare name of
\* every enumerator of declaration i.
EnumeratorsHaveKind(i, kinds) ==
    \A j \in 1..Len(EnumeratorsOf(unit[i])) :
        \E k \in 1..Len(registers) :
            /\ registers[k].key.name = BareName(EnumeratorsOf(unit[i])[j].identifier)
            /\ registers[k].key.kind \in kinds

\* C2: kind decoding tries array prefixes before scalar prefixes.  For every
\* short type identifier of the unit that starts with "ControlArray" (resp.
\* "IndicatorArray") extract_type_from_start returns ControlArray (resp.
\* IndicatorArray), never Control (resp. Indicator); the enumerators of such an
\* enumeration are entered under the array kind (or its size kind), and no
\* scalar entry carries a datatype that begins with "Array"; "ControlArrayU8"
\* gives ControlArray with datatype "U8".
C2_ArrayPrefixFirst ==
    /\ \A i \in EnumsStarting(Len(unit), "ControlArray") :
           extract_type_from_start(ShortNameOf(unit[i])) = Some("ControlArray")
    /\ \A i \in EnumsStarting(Len(unit), "IndicatorArray") :
           extract_type_from_start(ShortNameOf(unit[i])) = Some("IndicatorArray")
    /\ \A i \in EnumsStarting(VisitedCount, "ControlArray") :
           EnumeratorsHaveKind(i, {"ControlArray", "ControlArraySize"})
    /\ \A i \in EnumsStarting(VisitedCount, "IndicatorArray") :
           EnumeratorsHaveKind(i, {"IndicatorArray", "IndicatorArraySize"})
    /\ \A k \in 1..Len(registers) :
           registers[k].key.kind \in {"Control", "Indicator"}
               => ~StartsWith(registers[k].key.datatype, "Array")
    /\ \A i \in 1..VisitedCount :
           (IsInterfaceEnum(unit[i]) /\ ShortNameOf(unit[i]) = "ControlArrayU8")
               => \A j \in 1..Len(EnumeratorsOf(unit[i])) :
                      LocationDefinition("ControlArray",
                          BareName(EnumeratorsOf(unit[i])[j].identifier), "U8")
                          \in Keys(registers)

\* Witness of C2: NiFpga_Main_ControlArrayU8 was visited and its enumerator is
\* entered as a ControlArray of datatype U8.
C2_Witness ==
    /\ EnumsStarting(VisitedCount, "ControlArray") # {}
    /\ LocationDefinition("ControlArray", "U8ControlArray", "U8") \in Keys(registers)

\* C3: when a short type identifier with an array-kind prefix also ends with
\* "Size", its enumerators are entered under the size counterpart of the kind
\* with a datatype that has lost both the kind prefix and the trailing "Size";
\* an array entry and the size entry of the same element then carry the same
\* name and datatype and differ only in kind.
C3_SizeSuffix ==
    /\ \A i \in 1..VisitedCount :
           (IsInterfaceEnum(unit[i]) /\ IsSizeName(ShortNameOf(unit[i]))) =>
               \A j \in 1..Len(EnumeratorsOf(unit[i])) :
                   LocationDefinition(
                       SizeKindOf(NamedKind(ShortNameOf(unit[i]))),
                       BareName(EnumeratorsOf(unit[i])[j].identifier),
                       SubSeq(ShortNameOf(unit[i]),
                              Len(NamedKind(ShortNameOf(unit[i]))) + 1,
                              Len(ShortNameOf(unit[i])) - Len("Size")))
                       \in Keys(registers)
    /\ \A a, z \in ElementsUpTo(VisitedCount) :
           ( /\ NamedKind(ShortNameOf(unit[a[1]])) \in ArrayKinds
             /\ ShortNameOf(unit[z[1]]) = ShortNameOf(unit[a[1]]) \o "Size"
             /\ BareName(EnumeratorsOf(unit[a[1]])[a[2]].identifier)
                    = BareName(EnumeratorsOf(unit[z[1]])[z[2]].identifier) )
           => \E ka, kz \in Keys(registers) :
                  /\ ka.kind = NamedKind(ShortNameOf(unit[a[1]]))
                  /\ kz.kind = SizeKindOf(ka.kind)
                  /\ ka.name = BareName(EnumeratorsOf(unit[a[1]])[a[2]].identifier)
                  /\ kz.name = ka.name
                  /\ kz.datatype = ka.datatype
    /\ \A k \in Keys(registers) : k.kind \in SizeKinds => ~EndsWith(k.datatype, "Size")

\* Witness of C3: NiFpga_Main_ControlArrayU8 and NiFpga_Main_ControlArrayU8Size
\* were both visited; U8ControlArray has its array entry and its size entry.
C3_Witness ==
    /\ LocationDefinition("ControlArray", "U8ControlArray", "U8") \in Keys(registers)
    /\ LocationDefinition("ControlArraySize", "U8ControlArray", "U8") \in Keys(registers)
    /\ Maps(LocationDefinition("ControlArraySize", "U8ControlArray", "U8"), U32(4))

\* ------------------------------------------------------------------------
\* Vocabulary of the properties about the generated modules
\* ------------------------------------------------------------------------

\* The fixed type mapping as the specification gives it.
TargetType ==
    [U8 |-> "u8", U16 |-> "u16", U32 |-> "u32", U64 |-> "u64",
     I8 |-> "i8", I16 |-> "i16", I32 |-> "i32", I64 |-> "i64",
     Sgl |-> "f32", Dbl |-> "f64"]

KnownType(datatype) == datatype \in DOMAIN TargetType

\* The accessor a kind is declared with.
AccessorOf(kind) ==
    CASE kind \in {"Control", "Indicator"} -> "Register"
      [] kind \in ArrayKinds -> "ArrayRegister"
      [] kind = "HostToTargetFifo" -> "WriteFifo"
      [] kind = "TargetToHostFifo" -> "ReadFifo"
      [] OTHER -> "none"

\* The literal text of an address reads back as the value v.
AddressDenotes(text, v) ==
    /\ StartsWith(text, "0x")
    /\ FromStrRadix(SubSeq(text, 3, Len(text)), 16) = Some(v)

\* The literal text of an element count reads back as the value v.
CountDenotes(text, v) == FromStrRadix(text, 10) = Some(v)

\* Declaration t binds the name of entry k of the AddressSet to its address
\* with the accessor of its kind and the mapped target type.
DeclaresEntry(t, k) ==
    /\ t.name = registers[k].key.name
    /\ t.accessor = AccessorOf(registers[k].key.kind)
    /\ KnownType(registers[k].key.datatype)
    /\ t.ty = TargetType[registers[k].key.datatype]
    /\ AddressDenotes(t.address, registers[k].value)

\* The entries of the AddressSet of the given kinds.
EntriesOf(kinds) == {k \in 1..Len(registers) : registers[k].key.kind \in kinds}

\* The size entry of array entry k, if there is one.
SizeEntriesOf(k) ==
    {z \in 1..Len(registers) :
        registers[z].key = [kind |-> SizeKindOf(registers[k].key.kind),
                            name |-> registers[k].key.name,
                            datatype |-> registers[k].key.datatype]}

\* Declaration t is the array accessor of entry k: its address, and the
\* element count stored under the size definition of the same name and datatype.
DeclaresArray(t, k) ==
    /\ DeclaresEntry(t, k)
    /\ t.accessor = "ArrayRegister"
    /\ IsSome(t.size)
    /\ \E z \in SizeEntriesOf(k) : CountDenotes(Unwrap(t.size), registers[z].value)

\* The register entries whose generation panics, and the panic of the first.
FailingRegisterEntries ==
    {k \in EntriesOf(RegisterKinds) :
        \/ registers[k].key.kind \in ArrayKinds /\ SizeEntriesOf(k) = {}
        \/ ~KnownType(registers[k].key.datatype)}

FailingFifoEntries == {k \in EntriesOf(FifoKinds) : ~KnownType(registers[k].key.datatype)}

PanicOfEntry(k) ==
    IF registers[k].key.kind \in ArrayKinds /\ SizeEntriesOf(k) = {}
    THEN "Array size not found."
    ELSE "Unknown type " \o registers[k].key.datatype

First(indices) == CHOOSE k \in indices : \A m \in indices : k <= m

\* C4: when generate_register_module produces the registers module, every
\* ControlArray / IndicatorArray definition of the AddressSet has an
\* ArrayRegister declaration whose address is the definition's own value and
\* whose element count is the value stored under the size-kind definition of
\* the same name and datatype, and every ArrayRegister declaration is of that
\* form: a count never comes from another element's size entry.
C4_ArraySizeResolved ==
    registers_tokens # None =>
        /\ \A k \in EntriesOf(ArrayKinds) :
               \E n \in 1..Len(Unwrap(registers_tokens)) :
                   DeclaresArray(Unwrap(registers_tokens)[n], k)
        /\ \A n \in 1..Len(Unwrap(registers_tokens)) :
               Unwrap(registers_tokens)[n].accessor = "ArrayRegister" =>
                   \E k \in EntriesOf(ArrayKinds) :
                       DeclaresArray(Unwrap(registers_tokens)[n], k)

\* Witness of C4: the module declares U8ControlArray with address 0x18014 and
\* count 4, and U8SumArray with count 2.
C4_Witness ==
    /\ registers_tokens # None
    /\ \E n \in 1..Len(Unwrap(registers_tokens)) :
           Unwrap(registers_tokens)[n] =
               Declaration("U8ControlArray", "ArrayRegister", "u8", "0x18014", Some("4"))
    /\ \E n \in 1..Len(Unwrap(registers_tokens)) :
           /\ Unwrap(registers_tokens)[n].name = "U8SumArray"
           /\ Unwrap(registers_tokens)[n].size = Some("2")

\* C5: if the AddressSet holds a ControlArray or IndicatorArray definition
\* without a size-kind definition of the same name and datatype,
\* generate_register_module fails fatally and produces no registers module:
\* the step ends in the panic of the first failing entry ("Array size not
\* found." for an array without size), and no module or file ever exists.
C5_MissingSizeIsFatal ==
    /\ [](\A k \in EntriesOf(ArrayKinds) :
              SizeEntriesOf(k) = {} => registers_tokens = None /\ mod_file = None)
    /\ [][ ( /\ pc = "gen_regs"
             /\ err = NoError
             /\ \E k \in EntriesOf(ArrayKinds) : SizeEntriesOf(k) = {} )
           => ( /\ err' = PanicOfEntry(First(FailingRegisterEntries))
                /\ err' # NoError
                /\ pc' = "gen_regs"
                /\ registers_tokens' = None
                /\ mod_file' = None ) ]_vars

\* Witness of C5: the array without size was reached and the generation ended
\* with "Array size not found.".
C5_Witness ==
    /\ pc = "gen_regs"
    /\ err = "Array size not found."
    /\ \E k \in EntriesOf(ArrayKinds) : SizeEntriesOf(k) = {}
    /\ registers_tokens = None

\* C6: the registers module holds a declaration for a definition of the
\* AddressSet if and only if its kind is Control, Indicator, ControlArray or
\* IndicatorArray.  Every definition of these kinds has its declaration, every
\* declaration is the Register / ArrayRegister of such a definition, and there
\* are exactly as many declarations as such definitions: size definitions and
\* FIFO definitions produce none.
C6_RegistersModuleKinds ==
    registers_tokens # None =>
        /\ Len(Unwrap(registers_tokens)) = Cardinality(EntriesOf(RegisterKinds))
        /\ \A k \in EntriesOf(RegisterKinds) :
               \E n \in 1..Len(Unwrap(registers_tokens)) :
                   DeclaresEntry(Unwrap(registers_tokens)[n], k)
        /\ \A n \in 1..Len(Unwrap(registers_tokens)) :
               /\ Unwrap(registers_tokens)[n].accessor \in {"Register", "ArrayRegister"}
               /\ \E k \in EntriesOf(RegisterKinds) :
                      DeclaresEntry(Unwrap(registers_tokens)[n], k)

\* Witness of C6: the AddressSet holds controls, a FIFO definition and nothing
\* else, and the registers module was generated with the two controls only.
C6_Witness ==
    /\ registers_tokens # None
    /\ EntriesOf(FifoKinds) # {}
    /\ Cardinality(EntriesOf(RegisterKinds)) = 2
    /\ Len(Unwrap(registers_tokens)) = 2

\* Second witness of C6: size definitions in the AddressSet, a module without
\* a declaration of their own.
C6_WitnessSizes ==
    /\ registers_tokens # None
    /\ EntriesOf(SizeKinds) # {}
    /\ Len(Unwrap(registers_tokens)) = Cardinality(EntriesOf(ArrayKinds))

\* C7: the FIFOs module holds a declaration for a definition if and only if
\* its kind is a FIFO kind.  Every HostToTargetFifo definition has a WriteFifo
\* declaration, every TargetToHostFifo definition a ReadFifo declaration, every
\* declaration is one of these, and there are exactly as many declarations as
\* FIFO definitions: Control, Indicator, array and size definitions produce
\* none.
C7_FifosModuleKinds ==
    fifos_tokens # None =>
        /\ Len(Unwrap(fifos_tokens)) = Cardinality(EntriesOf(FifoKinds))
        /\ \A k \in EntriesOf({"HostToTargetFifo"}) :
               \E n \in 1..Len(Unwrap(fifos_tokens)) :
                   /\ DeclaresEntry(Unwrap(fifos_tokens)[n], k)
                   /\ Unwrap(fifos_tokens)[n].accessor = "WriteFifo"
        /\ \A k \in EntriesOf({"TargetToHostFifo"}) :
               \E n \in 1..Len(Unwrap(fifos_tokens)) :
                   /\ DeclaresEntry(Unwrap(fifos_tokens)[n], k)
                   /\ Unwrap(fifos_tokens)[n].accessor = "ReadFifo"
        /\ \A n \in 1..Len(Unwrap(fifos_tokens)) :
               /\ Unwrap(fifos_tokens)[n].accessor \in {"WriteFifo", "ReadFifo"}
               /\ \E k \in EntriesOf(FifoKinds) : DeclaresEntry(Unwrap(fifos_tokens)[n], k)

\* Witness of C7: a HostToTargetFifo definition and controls in the AddressSet,
\* a FIFOs module of the one WriteFifo declaration.
C7_Witness ==
    /\ fifos_tokens # None
    /\ EntriesOf({"Control"}) # {}
    /\ Unwrap(fifos_tokens) = <<Declaration("ToFpga", "WriteFifo", "u8", "0x1", None)>>

\* Second witness of C7: both directions.
C7_WitnessBoth ==
    /\ fifos_tokens # None
    /\ \E n \in 1..Len(Unwrap(fifos_tokens)) :
           Unwrap(fifos_tokens)[n] = Declaration("FromFpga", "ReadFifo", "f32", "0x2", None)
    /\ \E n \in 1..Len(Unwrap(fifos_tokens)) :
           Unwrap(fifos_tokens)[n].accessor = "WriteFifo"

\* The declarations generated so far.
AllTokens ==
    (IF registers_tokens # None
     THEN {Unwrap(registers_tokens)[n] : n \in 1..Len(Unwrap(registers_tokens))} ELSE {})
    \cup
    (IF fifos_tokens # None
     THEN {Unwrap(fifos_tokens)[n] : n \in 1..Len(Unwrap(fifos_tokens))} ELSE {})

\* C8: the type mapping is the fixed table U8, U16, U32, U64, I8, I16, I32,
\* I64, Sgl, Dbl to u8, u16, u32, u64, i8, i16, i32, i64, f32, f64.  Every
\* declaration carries the table's type of its definition's tag; a definition
\* that would be emitted with a tag outside the table makes the generation of
\* its module end in a panic (that of the first failing entry, "Unknown type
\* <tag>" for an unknown tag) without a module, and no file is written.
C8_UnknownTypeIsFatal ==
    /\ [](\A t \in AllTokens :
              \E k \in EntriesOf(RegisterKinds \cup FifoKinds) : DeclaresEntry(t, k))
    /\ []((\E k \in EntriesOf(RegisterKinds) : ~KnownType(registers[k].key.datatype))
              => registers_tokens = None /\ fifos_tokens = None /\ mod_file = None)
    /\ []((\E k \in EntriesOf(FifoKinds) : ~KnownType(registers[k].key.datatype))
              => fifos_tokens = None /\ mod_file = None)
    /\ [][ ( /\ pc = "gen_regs"
             /\ err = NoError
             /\ \E k \in EntriesOf(RegisterKinds) : ~KnownType(registers[k].key.datatype) )
           => ( /\ err' = PanicOfEntry(First(FailingRegisterEntries))
                /\ err' # NoError
                /\ pc' = "gen_regs"
                /\ registers_tokens' = None ) ]_vars
    /\ [][ ( /\ pc = "gen_fifos"
             /\ err = NoError
             /\ \E k \in EntriesOf(FifoKinds) : ~KnownType(registers[k].key.datatype) )
           => ( /\ err' = PanicOfEntry(First(FailingFifoEntries))
                /\ err' # NoError
                /\ pc' = "gen_fifos"
                /\ fifos_tokens' = None ) ]_vars

\* Witness of C8: a Control of tag Bool ended the generation of the registers
\* module with "Unknown type Bool".
C8_Witness ==
    /\ pc = "gen_regs"
    /\ err = "Unknown type Bool"
    /\ registers_tokens = None
    /\ mod_file = None

\* Second witness of C8: a FIFO of tag Bool ended the generation of the FIFOs
\* module, after the registers module was generated.
C8_WitnessFifo ==
    /\ pc = "gen_fifos"
    /\ err = "Unknown type Bool"
    /\ registers_tokens # None
    /\ fifos_tokens = None

\* The value pairs of the unit: the (definition, value) of every enumerator of
\* an interface enumeration.
Pairs == {<<DefinitionOf(e), ValueOf(e)>> : e \in Elements}

\* Every definition of the unit has one value.
DistinctDefinitions == \A p, q \in Pairs : p[1] = q[1] => p = q

\* The order of the keys: kind in declaration order, then name, then datatype,
\* strings by their bytes.
KindRank ==
    [Control |-> 1, Indicator |-> 2, ControlArray |-> 3, IndicatorArray |-> 4,
     ControlArraySize |-> 5, IndicatorArraySize |-> 6,
     TargetToHostFifo |-> 7, HostToTargetFifo |-> 8]

StrLess(a, b) ==
    \E k \in 1..Len(b) :
        /\ \A m \in 1..(k - 1) : m <= Len(a) /\ CharAt(a, m) = CharAt(b, m)
        /\ \/ k > Len(a)
           \/ CharCode(CharAt(a, k)) < CharCode(CharAt(b, k))

KeyLess(a, b) ==
    \/ KindRank[a.kind] < KindRank[b.kind]
    \/ /\ a.kind = b.kind
       /\ \/ StrLess(a.name, b.name)
          \/ a.name = b.name /\ StrLess(a.datatype, b.datatype)

\* The entry of the given kinds that has n - 1 such entries before it.
NthEntry(kinds, n) ==
    CHOOSE k \in EntriesOf(kinds) : Cardinality({m \in EntriesOf(kinds) : m < k}) = n - 1

\* The declarations are those of the entries of the kinds, in the order of
\* the entries.
InEntryOrder(tokens, kinds) ==
    /\ Len(tokens) = Cardinality(EntriesOf(kinds))
    /\ \A n \in 1..Len(tokens) : DeclaresEntry(tokens[n], NthEntry(kinds, n))

SignatureDeclaratorsUpTo(n) ==
    {e \in UNION { {<<i, j>> : j \in 1..Len(unit[i].declarators)} : i \in 1..n } :
        /\ unit[e[1]].declarators[e[2]].declarator = <<"NiFpga_Main_Signature">>
        /\ unit[e[1]].declarators[e[2]].initializer # <<>>
        /\ unit[e[1]].declarators[e[2]].initializer[1].kind = "StringLiteral"}

\* The text of a quoted literal between its quotes.
Unquoted(text) == SubSeq(text, 2, Len(text) - 1)

\* What the first such declarator of the first n declarations supplies.
CapturedUpTo(n) ==
    IF SignatureDeclaratorsUpTo(n) = {} THEN <<>>
    ELSE LET first == CHOOSE e \in SignatureDeclaratorsUpTo(n) :
                          \A f \in SignatureDeclaratorsUpTo(n) : e = f \/ Before(e, f)
         IN  <<Unquoted(unit[first[1]].declarators[first[2]].initializer[1].strings[1])>>

\* The number of declarations the signature visitor went through.
SignatureVisitedCount ==
    IF pc = "parse" THEN 0 ELSE IF pc = "sig" THEN idx - 1 ELSE Len(unit)

\* C11: the value of StringConstantVisitor is, at every point of its walk,
\* the text between the quotes of the first visited declarator that is named
\* NiFpga_<Interface>_Signature and initialized with a string literal, and
\* nothing if there was none: a declarator of another name (NiFpga_Main_Test,
\* Signature without the prefix) never sets it, and once a value is captured
\* no later step changes it.
C11_FirstSignatureCaptured ==
    /\ [](value = CapturedUpTo(SignatureVisitedCount))
    /\ [][value # <<>> => value' = value]_vars

\* Witness of C11: the unit declares the signature "E3E0C23C" and later a
\* second constant of the same name with the text "A1B2"; the walk is over and
\* the value is the first text.
C11_Witness ==
    /\ pc \notin {"parse", "sig"}
    /\ Cardinality(SignatureDeclaratorsUpTo(Len(unit))) = 2
    /\ value = <<"E3E0C23C">>

\* Second witness of C11: only constants of other names, no value.
C11_WitnessOtherNames ==
    /\ pc \notin {"parse", "sig"}
    /\ \E i, j \in 1..Len(unit) :
           /\ unit[i].declarators[1].declarator = <<"NiFpga_Main_Test">>
           /\ unit[j].declarators[1].declarator = <<"Signature">>
    /\ value = <<>>

\* C12: a unit without a declaration named NiFpga_<Interface>_Signature that
\* is initialized with a string literal never yields an InterfaceDescription:
\* no signature, no module and no file, however many definitions the address
\* visitor decoded; and when both visitors are through, read_ast ends in the
\* panic "No signature".
C12_NoSignatureIsFatal ==
    /\ [](SignatureDeclaratorsUpTo(Len(unit)) = {}
              => /\ signature = <<>>
                 /\ pc \in {"parse", "sig", "addr"}
                 /\ registers_tokens = <<>>
                 /\ fifos_tokens = <<>>
                 /\ mod_file = <<>>)
    /\ [][ ( /\ pc = "addr"
             /\ err = ""
             /\ idx > Len(unit)
             /\ SignatureDeclaratorsUpTo(Len(unit)) = {} )
           => ( /\ err' = "No signature"
                /\ pc' = "addr"
                /\ signature' = <<>> ) ]_vars

\* Witness of C12: three definitions decoded, no signature, the panic.
C12_Witness ==
    /\ err = "No signature"
    /\ SignatureDeclaratorsUpTo(Len(unit)) = {}
    /\ Len(registers) >= 3
    /\ signature = <<>>
    /\ mod_file = <<>>

\* Second witness of C12: the name is there, the initializer is a number.
C12_WitnessNotALiteral ==
    /\ err = "No signature"
    /\ \E i \in 1..Len(unit) :
           /\ unit[i].declarators[1].declarator = <<"NiFpga_Main_Signature">>
           /\ unit[i].declarators[1].initializer[1].kind = "Integer"

\* The address visitor is about to visit declaration unit[idx].
AboutToVisit == pc = "addr" /\ err = "" /\ idx <= Len(unit)

\* The declaration is a typedef'd enumeration whose type name carries the
\* interface prefix.
HasInterfacePrefix(d) == IsTypedefEnum(d) /\ StartsWith(TypeNameOf(d), InterfacePrefix)

\* C13: a declaration that is not a typedef'd enumeration, and a typedef'd
\* enumeration whose type name does not start with NiFpga_<Interface>_, is
\* ignored without error: the visit returns normally and the AddressSet is as
\* it was.
C13_OtherDeclarationsIgnored ==
    [][ (AboutToVisit /\ ~HasInterfacePrefix(unit[idx]))
        => (err' = "" /\ registers' = registers /\ idx' = idx + 1) ]_vars

\* The half of C13 that holds: a declaration that is not a typedef'd
\* enumeration (a string constant, a typedef'd struct) is ignored.
C13_NonEnumerationsIgnored ==
    [][ (AboutToVisit /\ ~IsTypedefEnum(unit[idx]))
        => (err' = "" /\ registers' = registers /\ idx' = idx + 1) ]_vars

\* Where C13 fails: the visit of typedef enum {...} NiFpga_Other_ControlU8
\* ended in the panic of strip_prefix(..).unwrap(), after a definition of the
\* interface had been decoded.
C13_Witness ==
    /\ pc = "addr"
    /\ idx > 1
    /\ IsTypedefEnum(unit[idx - 1])
    /\ TypeNameOf(unit[idx - 1]) = "NiFpga_Other_ControlU8"
    /\ err = "called Option::unwrap() on a None value"
    /\ Len(registers) > 0

\* C14: a typedef'd enumeration that carries the interface prefix but whose
\* short type identifier starts with none of the kind prefixes is skipped: the
\* visit returns normally and adds nothing to the AddressSet.
C14_UnknownKindSkipped ==
    [][ ( /\ AboutToVisit
          /\ HasInterfacePrefix(unit[idx])
          /\ MatchingKinds(ShortNameOf(unit[idx])) = {} )
        => (err' = "" /\ registers' = registers /\ idx' = idx + 1) ]_vars

\* Where C14 fails: the visit of typedef enum {...} NiFpga_Main_FxpU8 ended in
\* the panic of extract_type_from_start(name).unwrap().
C14_Witness ==
    /\ pc = "addr"
    /\ idx > 1
    /\ IsTypedefEnum(unit[idx - 1])
    /\ TypeNameOf(unit[idx - 1]) = "NiFpga_Main_FxpU8"
    /\ err = "called Option::unwrap() on a None value"
    /\ mod_file = <<>>

\* The panics of the fatal conditions of a run.
FatalConditions ==
    {"called Result::unwrap() on an Err value: SyntaxError",
     "No signature",
     "Array size not found.",
     "Unknown type Bool",
     "Unexpected constant type.",
     "Unexpected expression type",
     "called Result::unwrap() on an Err value",
     "called Option::unwrap() on a None value"}

\* C15: generation is all-or-nothing.  The output file exists only in a run
\* that went through parsing, both visitors and both generators without a
\* panic, it is then the whole text (signature, registers module, FIFOs
\* module), and it is written in one step, the last; a run that ended in a
\* fatal condition stays ended and has written nothing.
C15_AllOrNothing ==
    /\ [](mod_file # <<>>
              => /\ pc = "done"
                 /\ err = ""
                 /\ AddressVisitDone
                 /\ signature # <<>> /\ registers_tokens # <<>> /\ fifos_tokens # <<>>
                 /\ mod_file = <<RenderOutput(signature[1], registers_tokens[1],
                                              fifos_tokens[1])>>)
    /\ [](err # "" => err \in FatalConditions /\ mod_file = <<>>)
    /\ [][err # "" => UNCHANGED vars]_vars
    /\ [][mod_file' # mod_file => (pc = "write" /\ pc' = "done" /\ mod_file = <<>>)]_vars

\* Witness of C15: a malformed literal (a constant that is not an integer)
\* ended the run after the signature was captured and a definition decoded;
\* no file.
C15_Witness ==
    /\ err = "Unexpected constant type."
    /\ value # <<>>
    /\ Len(registers) > 0
    /\ mod_file = <<>>

\* Further witnesses of C15: a rejected text, an integer literal beyond u32,
\* and the run that succeeds and writes the file.
C15_WitnessParseFailure ==
    /\ err = "called Result::unwrap() on an Err value: SyntaxError"
    /\ pc = "parse"
    /\ mod_file = <<>>

C15_WitnessOverflow ==
    /\ err = "called Result::unwrap() on an Err value"
    /\ pc = "addr"
    /\ mod_file = <<>>

C15_WitnessWritten ==
    /\ pc = "done"
    /\ mod_file # <<>>
    /\ Len(registers_tokens[1]) > 0
    /\ Len(fifos_tokens[1]) > 0

\* The contexts that exist: built, and Drop for NiFpgaContext not through.
LiveContexts == {c \in 1..Len(contexts) : contexts[c].life \in {"alive", "finalize", "store"}}

\* The positions of history with a call of the given name.
CallsOf(op) == {i \in 1..Len(history) : history[i].op = op}

\* The calls of NiFpgaContext::new that returned a context.
SucceededNews == {i \in CallsOf("NiFpga_Initialize") : history[i].ok}

C17_ContextOutlivesSessions ==
    /\ \A s \in 1..Len(sessions) :
           sessions[s].life \in {"open", "closed", "failed"}
               => /\ contexts[sessions[s].context].life = "alive"
                  /\ \A k \in CallsOf("NiFpga_Finalize") :
                         history[k].context # sessions[s].context
    /\ \A k \in CallsOf("NiFpga_Finalize") :
           \A j \in CallsOf("NiFpga_Open") :
               history[j].context = history[k].context
                   => /\ j < k
                      /\ \E i \in CallsOf("NiFpga_Close") :
                             /\ j < i /\ i < k
                             /\ history[i].session = history[j].session

\* Witness of C17: the application dropped its handle while two sessions were
\* open; they were closed afterwards and the context finalized last.
C17_Witness ==
    /\ Len(history) = 7
    /\ history[1].op = "NiFpga_Initialize"
    /\ history[2].op = "NiFpga_Open" /\ history[2].ok
    /\ history[3].op = "NiFpga_Open" /\ history[3].ok
    /\ history[4].op = "drop"
    /\ history[5].op = "NiFpga_Close"
    /\ history[6].op = "NiFpga_Close"
    /\ history[7].op = "NiFpga_Finalize"

\* Second witness of C17: the session first, then the handle.
C17_WitnessHandleLast ==
    /\ Len(history) = 5
    /\ history[2].op = "NiFpga_Open" /\ history[2].ok
    /\ history[3].op = "NiFpga_Close"
    /\ history[4].op = "drop"
    /\ history[5].op = "NiFpga_Finalize"

\* ------------------------------------------------------------------------
\* C18  zero-copy regions are released exactly once, at their drop
\* ------------------------------------------------------------------------

\* The positions of fifo_calls that release the elements of region r.
ReleasesOf(r) ==
    {i \in 1..Len(fifo_calls) :
        /\ fifo_calls[i].op = "NiFpga_ReleaseFifoElements"
        /\ fifo_calls[i].region = r}

\* The acquire call of the driver that region r was built from.
AcquireOf(r) ==
    fifo_calls[CHOOSE i \in 1..Len(fifo_calls) :
                   /\ fifo_calls[i].op # "NiFpga_ReleaseFifoElements"
                   /\ fifo_calls[i].region = r]

\* The regions the application obtained: their acquire call was no error.
ObtainedRegions == {r \in 1..Len(regions) : AcquireOf(r).ok}

\* C18: every region obtained from a successful zero_copy_read or
\* zero_copy_write has no release call while it is held and, once it is
\* dropped, exactly one NiFpga_ReleaseFifoElements call, for the FIFO address
\* of its acquire call and with the number of elements the driver reported as
\* acquired; and that call is made in the step that drops the region.
C18_RegionReleasedOnceAtDrop ==
    /\ [](\A r \in ObtainedRegions :
              IF regions[r].life = "held"
              THEN ReleasesOf(r) = {}
              ELSE /\ Cardinality(ReleasesOf(r)) = 1
                   /\ \A i \in ReleasesOf(r) :
                          /\ fifo_calls[i].fifo = AcquireOf(r).fifo
                          /\ fifo_calls[i].elements = AcquireOf(r).elements)
    /\ [][\A r \in 1..Len(regions) :
              (regions[r].life = "held" /\ regions'[r].life = "dropped")
                  <=> (ReleasesOf(r) = {} /\ ReleasesOf(r)' # {}
                       /\ r \in ObtainedRegions)]_vars

\* A read region and a write region were obtained with fewer elements than
\* were asked for, on different FIFOs, and both were dropped, the later one
\* first.
C18_Witness ==
    /\ Len(regions) = 2
    /\ regions[1].direction = "Read" /\ regions[2].direction = "Write"
    /\ regions[1].fifo # regions[2].fifo
    /\ {1, 2} \subseteq ObtainedRegions
    /\ regions[1].len < regions[1].requested
    /\ regions[2].len > 0
    /\ regions[1].life = "dropped" /\ regions[2].life = "dropped"
    /\ \E i \in ReleasesOf(1), j \in ReleasesOf(2) : j < i

\* An acquire call that was an error releases nothing the application holds.
C18_WitnessFailedAcquire ==
    /\ Len(regions) = 2
    /\ 1 \notin ObtainedRegions
    /\ 2 \in ObtainedRegions /\ regions[2].life = "held"
    /\ ReleasesOf(1) # {}


\* ------------------------------------------------------------------------
\* C19  the timeout passed to the driver
\* ------------------------------------------------------------------------

\* The timeout_ms argument of the driver call that was made.
PassedTimeout == Unwrap(timeout_ms).timeout_ms

\* C19: once a FIFO transfer has called the driver, a timeout of None was
\* passed as 0xFFFFFFFF and a timeout of Some(d) was passed as the whole
\* number of milliseconds of d: the passed number divided by 1000 is the
\* seconds of d, and the remainder is the milliseconds of its nanoseconds.
C19_TimeoutIsMillisecondCount ==
    IsSome(timeout_ms) =>
        IF IsSome(timeout)
        THEN DivMod(PassedTimeout, 1000) =
                 <<U32(Unwrap(timeout).secs), Unwrap(timeout).nanos \div 1000000>>
        ELSE PassedTimeout = INFINITE

\* C19, for the durations below 2^32 - 1 milliseconds: the same statement,
\* and no such timeout is passed as the infinite sentinel.
C19_TimeoutBelowU32Max ==
    (IsSome(timeout_ms) /\ IsSome(timeout)
        /\ as_millis(Unwrap(timeout))[1] = 0
        /\ FromDuration(Unwrap(timeout)) # INFINITE)
    => DivMod(PassedTimeout, 1000) =
           <<U32(Unwrap(timeout).secs), Unwrap(timeout).nanos \div 1000000>>

\* Duration::from_millis(4294967296) was passed to the driver as 0.
C19_Witness ==
    /\ timeout = Some(Duration(4294967, 296000000))
    /\ IsSome(timeout_ms)
    /\ PassedTimeout = <<0, 0>>

\* Duration::from_millis(4294967295) was passed as the infinite sentinel.
C19_WitnessInfinite ==
    /\ timeout = Some(Duration(4294967, 295000000))
    /\ IsSome(timeout_ms)
    /\ PassedTimeout = INFINITE

\* The cases of test_timeout_conversion_optional: 100 ms and None.
C19_WitnessHundred ==
    /\ timeout = Some(Duration(0, 100000000))
    /\ IsSome(timeout_ms)
    /\ PassedTimeout = <<0, 100>>

C19_WitnessNone ==
    /\ timeout = None
    /\ IsSome(timeout_ms)
    /\ PassedTimeout = INFINITE


\* ------------------------------------------------------------------------
\* C20  IrqSelection holds exactly the IRQ numbers it was given
\* ------------------------------------------------------------------------

\* The IRQ numbers given to new and to add_irq so far.
GivenIrqs == {irq_calls[i] : i \in 1..Len(irq_calls)}

C20_AddChangesOneBit ==
    [][\A n \in IrqNumbers :
           (irq_calls # <<>> /\ irq_calls' = Append(irq_calls, n)) =>
               /\ is_irq_set(selection', n)
               /\ \A m \in IrqNumbers \ {n} :
                      is_irq_set(selection', m) <=> is_irq_set(selection, m)
               /\ is_irq_set(selection, n) => selection' = selection]_vars

C20_WitnessTwice ==
    /\ irq_calls = <<17, 17>>
    /\ selection = <<2, 0>>
    /\ listed = Some(<<17>>)


\* ------------------------------------------------------------------------
\* C21  the order of the two FIFO directions in the FIFOs module
\* ------------------------------------------------------------------------

\* The AddressSet of test_should_generate_a_public_module_with_fifos, built
\* by its three inserts.
FifoTestSet ==
    BTreeInsert(
        BTreeInsert(
            BTreeInsert(BTreeNew, LocationDefinition("HostToTargetFifo", "to_fpga", "U8"),
                        U32(1)),
            LocationDefinition("TargetToHostFifo", "from_fpga", "Sgl"), U32(2)),
        LocationDefinition("Control", "control", "U8"), <<1, 32778>>)

VisitedAs(definition) ==
    {e \in ElementsUpTo(VisitedCount) : DefinitionOf(e) = definition}

\* The declaration the address visitor visits next repeats a definition that
\* the AddressSet holds or that it declares itself more than once.
NextRepeatsDefinition ==
    /\ pc = "addr" /\ err = NoError /\ idx <= Len(unit)
    /\ IsInterfaceEnum(unit[idx])
    /\ \E j \in 1..Len(EnumeratorsOf(unit[idx])) :
           \/ DefinitionOf(<<idx, j>>) \in Keys(registers)
           \/ \E i \in 1..(j - 1) : DefinitionOf(<<idx, i>>) = DefinitionOf(<<idx, j>>)

\* C22: after the visit of any number of declarations that raised no error,
\* the AddressSet holds exactly one entry per distinct triple the visited
\* enumerators decode to, and its value is that of the last visited
\* enumerator of that triple; and the visit of a declaration that repeats
\* a triple raises no error.
C22_LastEnumeratorWins ==
    /\ []((pc \notin {"parse", "sig"} /\ err \notin VisitorPanics) =>
              /\ Keys(registers) = {DefinitionOf(e) : e \in ElementsUpTo(VisitedCount)}
              /\ Len(registers) = Cardinality(Keys(registers))
              /\ \A k \in 1..Len(registers) :
                     \E last \in VisitedAs(registers[k].key) :
                         /\ \A f \in VisitedAs(registers[k].key) : ~Before(last, f)
                         /\ registers[k].value = ValueOf(last))
    /\ [][NextRepeatsDefinition => err' = NoError]_vars

\* NiFpga_Main_ControlU8_U8Control = 0x18002 was visited and then
\* NiFpga_Main_ControlU8_Copy_U8Control = 98338: one entry, the later value.
C22_Witness ==
    /\ AddressVisitDone
    /\ err = NoError
    /\ Cardinality(VisitedAs(LocationDefinition("Control", "U8Control", "U8"))) = 2
    /\ Maps(LocationDefinition("Control", "U8Control", "U8"), U32(98338))
    /\ Len(registers) = 2

\* The same two enumerations the other way round: the value is 0x18002.
C22_WitnessReversed ==
    /\ AddressVisitDone
    /\ err = NoError
    /\ Cardinality(VisitedAs(LocationDefinition("Control", "U8Control", "U8"))) = 2
    /\ Maps(LocationDefinition("Control", "U8Control", "U8"), U32(98306))


\* ------------------------------------------------------------------------
\* C23  the temporary header: the preamble, then the lines that do not begin
\*      with #include
\* ------------------------------------------------------------------------

\* The text of a line begins with #include.
BeginsWithInclude(text) == Len(text) >= 8 /\ SubSeq(text, 1, 8) = "#include"

\* The texts of the lines of the header that are kept, each behind the
\* other in the order of the header, each closed by a line feed.
RECURSIVE KeptText(_)
KeptText(file) ==
    IF Len(file) = 0 THEN ""
    ELSE (IF BeginsWithInclude(file[1].text) THEN "" ELSE file[1].text \o "\n")
         \o KeptText(Tail(file))

\* C23: the file header_to_temp_no_includes wrote is the preamble of type
\* aliases followed by the text of every line of the header, in the header's
\* order, except exactly the lines whose text begins with #include; a line
\* that holds #include further in is copied.
C23_PreambleThenLinesWithoutIncludes ==
    temp_file # None => Unwrap(temp_file) = common_types \o KeptText(header)

\* A header of an include line, a line that holds #include behind blanks and
\* a line that holds it in a comment was copied: only the first is left out.
C23_Witness ==
    /\ temp_file # None
    /\ Len(header) = 3
    /\ header[1].text = "#include <stdint.h>"
    /\ header[2].text = "  #include <stddef.h>"
    /\ header[3].text = "int x; /* #include */"
    /\ Unwrap(temp_file) =
           common_types \o "  #include <stddef.h>\nint x; /* #include */\n"

\* A header with CR LF endings and a last line without ending was copied.
C23_WitnessEndings ==
    /\ temp_file # None
    /\ Len(header) = 3
    /\ header[1] = [text |-> "#include \"NiFpga.h\"", ending |-> "\r\n"]
    /\ header[2] = [text |-> "typedef int NiFpga_Session;", ending |-> "\r\n"]
    /\ header[3] = [text |-> "#includes", ending |-> ""]
    /\ Unwrap(temp_file) = common_types \o "typedef int NiFpga_Session;\n"


\* ------------------------------------------------------------------------
\* C24  the value of an integer literal does not depend on its base
\* ------------------------------------------------------------------------

\* The texts of the integers 2^32 and above among the discriminants.
TooLarge ==
    {"100000000", "4294967296", "4294967297", "40000000000",
     "100000000000000000000000000000000"}

\* C24: once value_from_discriminant has returned, an integer literal that
\* is the text of a number below 2^32 in any of the four bases gave that
\* number, the same for every base; an integer literal of 2^32 or more ended
\* in a panic, and so did every expression that is not an integer literal.
C24_ValueIndependentOfBase ==
    parsed # None =>
        LET e == Unwrap(discriminant)
            r == Unwrap(parsed)
        IN  /\ \A n \in Numbers, base \in {"Decimal", "Hexadecimal", "Octal", "Binary"} :
                   e = Integer(base, Digits(n, BaseValue[base])) => r = Ok(n)
            /\ e = Integer("Hexadecimal", "abcdef01") => r = Ok(<<43981, 61185>>)
            /\ (e.kind = "Integer" /\ e.number \in TooLarge) =>
                   (r.err # NoError /\ r.val = None)
            /\ e.kind # "Integer" => (r.err # NoError /\ r.val = None)
            /\ r.err = NoError <=> (e.kind = "Integer" /\ e.number \notin TooLarge)

\* 0x18002 gave 98306.
C24_Witness ==
    /\ discriminant = Some(Integer("Hexadecimal", "18002"))
    /\ parsed = Some(Ok(U32(98306)))

\* 98306, 0300002 and 0b11000000000000010 gave 98306 as well.
C24_WitnessDecimal ==
    /\ discriminant = Some(Integer("Decimal", "98306"))
    /\ parsed = Some(Ok(U32(98306)))

C24_WitnessOctal ==
    /\ discriminant = Some(Integer("Octal", "300002"))
    /\ parsed = Some(Ok(U32(98306)))

C24_WitnessBinary ==
    /\ discriminant = Some(Integer("Binary", "11000000000000010"))
    /\ parsed = Some(Ok(U32(98306)))

\* 0xFFFFFFFF fits, 0x100000000 does not, and a floating constant is no
\* integer literal.
C24_WitnessLargest ==
    /\ discriminant = Some(Integer("Hexadecimal", "FFFFFFFF"))
    /\ parsed = Some(Ok(<<65535, 65535>>))

C24_WitnessTooLarge ==
    /\ discriminant = Some(Integer("Hexadecimal", "100000000"))
    /\ parsed = Some(Panic(UnwrapErr))

C24_WitnessFloat ==
    /\ discriminant = Some(Float("1.5"))
    /\ parsed = Some(Panic(UnexpectedConstant))


\* ------------------------------------------------------------------------
\* C25  one NiFpga_Close per opened session
\* ------------------------------------------------------------------------

\* The sessions NiFpga_Open opened, and those it failed to open.
OpenedSessions ==
    {s \in 1..Len(sessions) :
        \E i \in CallsOf("NiFpga_Open") : history[i].session = s /\ history[i].ok}

FailedSessions ==
    {s \in 1..Len(sessions) :
        \E i \in CallsOf("NiFpga_Open") : history[i].session = s /\ ~history[i].ok}

\* The NiFpga_Close calls made with the handle of session s.
ClosesOf(s) == {i \in CallsOf("NiFpga_Close") : history[i].session = s}

\* C25: for every session that was opened, NiFpga_Close is never called
\* more than once, and it has been called exactly once when the session's
\* life is over, whether close() was called or the session was only dropped.
C25_ClosedExactlyOnce ==
    \A s \in OpenedSessions :
        /\ Cardinality(ClosesOf(s)) <= 1
        /\ sessions[s].life \in {"dropped", "released"} => Cardinality(ClosesOf(s)) = 1

\* What is right of C25: a session that is only dropped is closed once.
C25_DroppedSessionClosedOnce ==
    [][\A s \in OpenedSessions :
           (sessions[s].life = "open" /\ sessions'[s].life = "dropped")
               => (ClosesOf(s) = {} /\ Cardinality(ClosesOf(s)') = 1)]_vars

\* close() was called on an opened session and returned: NiFpga_Close was
\* called in close and again in the drop of the session.
C25_Witness ==
    \E s \in OpenedSessions :
        /\ sessions[s].life = "released"
        /\ Cardinality(ClosesOf(s)) = 2

\* A session that was only dropped: one call.
C25_WitnessDropped ==
    \E s \in OpenedSessions :
        /\ sessions[s].life = "released"
        /\ Cardinality(ClosesOf(s)) = 1

\* ------------------------------------------------------------------------
\* C26  NiFpga_Initialize and NiFpga_Finalize alternate, and the flag is
\*      cleared with the context
\* ------------------------------------------------------------------------

\* The calls of NiFpga_Initialize and NiFpga_Finalize, in order.
ContextCalls ==
    SelectSeq(history, LAMBDA h : h.op \in {"NiFpga_Initialize", "NiFpga_Finalize"})

C26_WitnessTwoContexts ==
    /\ Len(ContextCalls) = 4
    /\ ContextCalls[1].ok /\ ContextCalls[3].ok
    /\ CONTEXT_ACTIVE = FALSE
    /\ \A c \in 1..Len(contexts) : contexts[c].life = "dropped"

\* ------------------------------------------------------------------------
\* C27  a session that failed to open
\* ------------------------------------------------------------------------

\* C27: when NiFpga_Open returned an error status, no NiFpga_Close is called
\* for that session.
C27_NoCloseAfterFailedOpen == \A s \in FailedSessions : ClosesOf(s) = {}

\* What is right of C27: the caller gets no session.
C27_NoSessionReturned ==
    \A s \in FailedSessions : sessions[s].life \in {"failed", "dropped", "released"}

\* Session::new returned the error of NiFpga_Open, and the session it had
\* built was dropped: NiFpga_Close was called with its handle.
C27_Witness ==
    \E s \in FailedSessions :
        /\ sessions[s].life = "released"
        /\ Cardinality(ClosesOf(s)) = 1

\* ------------------------------------------------------------------------
\* C28  a zero-copy acquire that failed
\* ------------------------------------------------------------------------

\* C28: when the acquire call of zero_copy_read or zero_copy_write returned
\* an error status, the caller holds no region of it and no
\* NiFpga_ReleaseFifoElements call is made for it.
C28_NoReleaseAfterFailedAcquire ==
    \A r \in (1..Len(regions)) \ ObtainedRegions :
        /\ regions[r].life # "held"
        /\ ReleasesOf(r) = {}

\* What is right of C28: the caller never holds a region of a failed acquire.
C28_NoRegionReturned ==
    \A r \in (1..Len(regions)) \ ObtainedRegions : regions[r].life = "dropped"

\* zero_copy_read returned an error: the region it had built was dropped and
\* its elements, as many as the driver reported, were released.
C28_Witness ==
    \E r \in (1..Len(regions)) \ ObtainedRegions :
        /\ regions[r].direction = "Read"
        /\ regions[r].life = "dropped"
        /\ \E i \in ReleasesOf(r) :
               /\ fifo_calls[i].fifo = regions[r].fifo
               /\ fifo_calls[i].elements = regions[r].len


\* ------------------------------------------------------------------------
\* C29  the identifiers of a generated module
\* ------------------------------------------------------------------------

\* The names declared in a module, and whether they are pairwise distinct.
DistinctNames(tokens) ==
    \A m, n \in 1..Len(tokens) : m # n => tokens[m].name # tokens[n].name

\* The enumerators of the unit that stand for an element of its own: all
\* but the size enumerators of arrays.
ElementEnumerators == {e \in Elements : DefinitionOf(e).kind \notin SizeKinds}

\* C29: in each generated module the identifiers are pairwise distinct, and
\* two different enumerators that stand for interface elements never share
\* one entry of the AddressSet: each element has a declaration of its own.
C29_IdentifiersDistinct ==
    /\ registers_tokens # None => DistinctNames(Unwrap(registers_tokens))
    /\ fifos_tokens # None => DistinctNames(Unwrap(fifos_tokens))
    /\ (AddressVisitDone /\ err = NoError) =>
           \A e, f \in ElementEnumerators :
               (EnumeratorsOf(unit[e[1]])[e[2]].identifier
                    # EnumeratorsOf(unit[f[1]])[f[2]].identifier)
                   => DefinitionOf(e) # DefinitionOf(f)

\* What is right of C29: every identifier of a module is the name of a
\* definition of the AddressSet, the text behind the last underscore.
C29_IdentifiersAreBareNames ==
    \A t \in AllTokens :
        /\ \E k \in 1..Len(registers) : registers[k].key.name = t.name
        /\ \E e \in Elements :
               BareName(EnumeratorsOf(unit[e[1]])[e[2]].identifier) = t.name

\* A control and an indicator named U8Sum: the registers module declares
\* U8Sum twice.
C29_Witness ==
    /\ registers_tokens # None
    /\ \E m, n \in 1..Len(Unwrap(registers_tokens)) :
           /\ m < n
           /\ Unwrap(registers_tokens)[m] =
                  Declaration("U8Sum", "Register", "u8", "0x18006", None)
           /\ Unwrap(registers_tokens)[n] =
                  Declaration("U8Sum", "Register", "u8", "0x1801A", None)

\* NiFpga_Main_ControlU8_U8Control and NiFpga_Main_ControlU8_Copy_U8Control
\* have one declaration between them.
C29_WitnessCollapsed ==
    /\ registers_tokens # None
    /\ Cardinality(VisitedAs(LocationDefinition("Control", "U8Control", "U8"))) = 2
    /\ Cardinality({n \in 1..Len(Unwrap(registers_tokens)) :
                       Unwrap(registers_tokens)[n].name = "U8Control"}) = 1

\* ------------------------------------------------------------------------
\* C30  the datatypes of the run-time library in the generator
\* ------------------------------------------------------------------------

\* The tags impl_type_session_interface! is invoked with.
RuntimeTypes ==
    {"U8", "U16", "U32", "U64", "I8", "I16", "I32", "I64", "Sgl", "Dbl", "Bool"}

\* C30: every datatype tag of the run-time library is accepted by the
\* generator: no build of a header ends in "Unknown type" for such a tag.
C30_RuntimeTypesAccepted ==
    \A t \in RuntimeTypes : err # UnknownType \o " " \o t

\* What is right of C30: the ten numeric tags are accepted.
C30_NumericTypesAccepted ==
    \A t \in RuntimeTypes \ {"Bool"} :
        /\ IsSome(type_string_to_type(t))
        /\ err # UnknownType \o " " \o t

\* A header with a Bool control: the build ended in Unknown type Bool.
C30_Witness ==
    /\ pc = "gen_regs"
    /\ Maps(LocationDefinition("Control", "Flag", "Bool"), <<1, 32782>>)
    /\ err = UnknownType \o " Bool"

\* A header with a Bool FIFO: the FIFOs module is not generated either.
C30_WitnessFifo ==
    /\ pc = "gen_fifos"
    /\ Maps(LocationDefinition("HostToTargetFifo", "Flags", "Bool"), U32(3))
    /\ err = UnknownType \o " Bool"

====
